---- MODULE Spec2Model ----
(***************************************************************************)
(* NUST aggregate calculator: the scoring core (lib/calcAggregate,         *)
(* lib/chancePredictor, lib/meritListPredictor, lib/netScoreRecommender,   *)
(* lib/preferenceGenerator) and the POST /api/predict handler.             *)
(*                                                                         *)
(* Numbers.  The program computes on JavaScript numbers; the model         *)
(* computes exactly, on integers that carry a fixed scale:                 *)
(*   centi  (x 100)     scores, percentages and aggregates as entered or   *)
(*                      returned with two decimals;                        *)
(*   milli  (x 1000)    netScoreToPercentage's result;                     *)
(*   fine   (x 100000)  weighted contributions before rounding.            *)
(* Weights are kept in hundredths (0.75 is 75).  An optional value         *)
(* (undefined / null in the source) is the empty sequence, a present value *)
(* v is <<v>>.                                                             *)
(***************************************************************************)
EXTENDS Integers, Sequences, FiniteSets, TLC

VARIABLES
    fn,       \* the operation that ran last
    arg,      \* its input
    res,      \* what it returned
    prev,     \* the call before it (kept by the prediction operations)
    program,  \* the reference closing data of the program under prediction
    store     \* the database: programs and merit-history records

vars == <<fn, arg, res, prev, program, store>>

-----------------------------------------------------------------------------
(* Optional values and arithmetic helpers                                  *)

Null == <<>>

Some(v) == <<v>>

IsNull(o) == o = <<>>

Val(o) == o[1]

Min(a, b) == IF a <= b THEN a ELSE b

Max(a, b) == IF a >= b THEN a ELSE b

Abs(a) == IF a >= 0 THEN a ELSE -a

\* Math.ceil of the rational num/den, den > 0
Ceil(num, den) == -((-num) \div den)

\* Math.round of the rational num/den, den > 0: floor(x + 0.5)
MathRound(num, den) == (2 * num + den) \div (2 * den)

\* Number.prototype.toFixed(2) followed by parseFloat, of the rational
\* num/den hundredths (den > 0; den is 1000 for a value in fine units): the
\* nearest hundredth, halves away from zero
ToFixed2(num, den) ==
    IF num >= 0 THEN (2 * num + den) \div (2 * den)
    ELSE -((2 * (-num) + den) \div (2 * den))

-----------------------------------------------------------------------------
(* lib/calcAggregate                                                       *)

AGGREGATE_CONFIG ==
    [ MAX_NET_SCORE    |-> 200,
      WEIGHTS_FSC      |-> [NET |-> 75, HSC |-> 15, SSC |-> 10],
      WEIGHTS_OA_LEVEL |-> [NET |-> 75, EQUIVALENCE |-> 25],
      MIN_PERCENTAGE   |-> 0,
      MAX_PERCENTAGE   |-> 100 ]

\* errors.push for each violated bound, in the order of the source
PushIf(errors, cond, msg) == IF cond THEN Append(errors, msg) ELSE errors

validateAggregateInputSkipsSsc(input) ==
    LET maxNet == AGGREGATE_CONFIG.MAX_NET_SCORE * 100
        minPct == AGGREGATE_CONFIG.MIN_PERCENTAGE * 100
        maxPct == AGGREGATE_CONFIG.MAX_PERCENTAGE * 100
        e1 == PushIf(<<>>, input.netScore < 0, "NET score cannot be negative")
        e2 == PushIf(e1, input.netScore > maxNet, "NET score cannot exceed 200")
        e3 == IF input.useEquivalence
              THEN IF IsNull(input.equivalencePercentage)
                   THEN Append(e2, "Equivalence percentage is required for O/A Level students")
                   ELSE PushIf(PushIf(e2, Val(input.equivalencePercentage) < minPct,
                                      "Equivalence percentage cannot be negative"),
                               Val(input.equivalencePercentage) > maxPct,
                               "Equivalence percentage cannot exceed 100%")
              ELSE PushIf(PushIf(e2, input.hscPercentage < minPct,
                                 "HSC/FSc percentage cannot be negative"),
                          input.hscPercentage > maxPct,
                          "HSC/FSc percentage cannot exceed 100%")
    IN  [isValid |-> Len(e3) = 0, errors |-> e3]

validateAggregateInput(input) ==
    LET maxNet == AGGREGATE_CONFIG.MAX_NET_SCORE * 100
        minPct == AGGREGATE_CONFIG.MIN_PERCENTAGE * 100
        maxPct == AGGREGATE_CONFIG.MAX_PERCENTAGE * 100
        e1 == PushIf(<<>>, input.netScore < 0, "NET score cannot be negative")
        e2 == PushIf(e1, input.netScore > maxNet, "NET score cannot exceed 200")
        e3 == IF input.useEquivalence
              THEN IF IsNull(input.equivalencePercentage)
                   THEN Append(e2, "Equivalence percentage is required for O/A Level students")
                   ELSE PushIf(PushIf(e2, Val(input.equivalencePercentage) < minPct,
                                      "Equivalence percentage cannot be negative"),
                               Val(input.equivalencePercentage) > maxPct,
                               "Equivalence percentage cannot exceed 100%")
              ELSE LET h1 == PushIf(e2, input.hscPercentage < minPct,
                                    "HSC/FSc percentage cannot be negative")
                       h2 == PushIf(h1, input.hscPercentage > maxPct,
                                    "HSC/FSc percentage cannot exceed 100%")
                       s1 == PushIf(h2, input.sscPercentage < minPct,
                                    "SSC/Matric percentage cannot be negative")
                   IN  PushIf(s1, input.sscPercentage > maxPct,
                              "SSC/Matric percentage cannot exceed 100%")
    IN  [isValid |-> Len(e3) = 0, errors |-> e3]

\* (netScore / MAX_NET_SCORE) * 100: centi in, milli out (exact)
netScoreToPercentage(netScore) ==
    (netScore * 10 * 100) \div AGGREGATE_CONFIG.MAX_NET_SCORE

\* percentage (centi) * weight (hundredths), in fine units
Weighted(pct, weight) == pct * 10 * weight

\* The record returned, with the unrounded locals kept under raw
AggregateOALevel(input) ==
    LET w == AGGREGATE_CONFIG.WEIGHTS_OA_LEVEL
        netContribution == netScoreToPercentage(input.netScore) * w.NET
        equivalenceContribution ==
            Weighted(Val(input.equivalencePercentage), w.EQUIVALENCE)
        totalAggregate == netContribution + equivalenceContribution
    IN  [ netContribution         |-> ToFixed2(netContribution, 1000),
          hscContribution         |-> 0,
          sscContribution         |-> 0,
          equivalenceContribution |-> Some(ToFixed2(equivalenceContribution, 1000)),
          totalAggregate          |-> ToFixed2(totalAggregate, 1000),
          isOALevel               |-> TRUE,
          raw |-> [ net |-> netContribution, hsc |-> 0, ssc |-> 0,
                    equivalence |-> equivalenceContribution,
                    total |-> totalAggregate ] ]

AggregateFSc(input) ==
    LET w == AGGREGATE_CONFIG.WEIGHTS_FSC
        netContribution == netScoreToPercentage(input.netScore) * w.NET
        hscContribution == Weighted(input.hscPercentage, w.HSC)
        sscContribution == Weighted(input.sscPercentage, w.SSC)
        totalAggregate == netContribution + hscContribution + sscContribution
    IN  [ netContribution         |-> ToFixed2(netContribution, 1000),
          hscContribution         |-> ToFixed2(hscContribution, 1000),
          sscContribution         |-> ToFixed2(sscContribution, 1000),
          equivalenceContribution |-> Null,
          totalAggregate          |-> ToFixed2(totalAggregate, 1000),
          isOALevel               |-> FALSE,
          raw |-> [ net |-> netContribution, hsc |-> hscContribution,
                    ssc |-> sscContribution, equivalence |-> 0,
                    total |-> totalAggregate ] ]

calculateAggregateIgnoresVariant(input) == AggregateFSc(input)

calculateAggregate(input) ==
    IF input.useEquivalence /\ ~IsNull(input.equivalencePercentage)
    THEN AggregateOALevel(input)
    ELSE AggregateFSc(input)

-----------------------------------------------------------------------------
(* Inputs of the aggregate operations (centi)                              *)

NetGrid == 2500

PctGrid == 2500

NetScoreInputs ==
    {n \in (-NetGrid)..(20000 + NetGrid) : n % NetGrid = 0}
        \cup {-1, 1, 12345, 19999, 20001}

PctInputs ==
    {p \in (-PctGrid)..(10000 + PctGrid) : p % PctGrid = 0}
        \cup {-1, 1, 3333, 8500, 9000, 9999, 10001}

EquivalenceInputs == {Null} \cup {Some(p) : p \in PctInputs}

AggregateInputs ==
    [ netScore : NetScoreInputs, hscPercentage : PctInputs,
      sscPercentage : PctInputs, useEquivalence : BOOLEAN,
      equivalencePercentage : EquivalenceInputs ]

NoCall == [fn |-> "none"]

NoProgram == [lastYearClosingAggregate |-> Null, averageClosingAggregate |-> Null]

\* The database before anything is saved; nextId numbers the records
EmptyStore == [programs |-> {}, meritHistory |-> {}, nextId |-> 1]

Idle == fn = "none"

InitIdle ==
    /\ fn = "none"
    /\ arg = [none |-> TRUE]
    /\ res = [none |-> TRUE]
    /\ prev = NoCall
    /\ program = NoProgram
    /\ store = EmptyStore

ValidateAggregateInput ==
    /\ Idle
    /\ \E input \in AggregateInputs :
        /\ fn' = "validateAggregateInput"
        /\ arg' = input
        /\ res' = validateAggregateInput(input)
        /\ UNCHANGED <<prev, program, store>>

CalculateAggregate ==
    /\ Idle
    /\ \E input \in AggregateInputs :
        /\ fn' = "calculateAggregate"
        /\ arg' = input
        /\ res' = calculateAggregate(input)
        /\ UNCHANGED <<prev, program, store>>

NextAggregate == ValidateAggregateInput \/ CalculateAggregate

SpecAggregate == InitIdle /\ [][NextAggregate]_vars


-----------------------------------------------------------------------------
(* Claims about lib/calcAggregate                                          *)

InRange(x, lo, hi) == lo <= x /\ x <= hi

Count(b) == IF b THEN 1 ELSE 0

\* The equivalence formula is the one selected
UsesEquivalence(input) ==
    input.useEquivalence /\ input.equivalencePercentage # Null

\* Range-valid input of the selected variant
RangeValid(input) ==
    /\ InRange(input.netScore, 0, 20000)
    /\ IF UsesEquivalence(input)
       THEN InRange(input.equivalencePercentage[1], 0, 10000)
       ELSE /\ InRange(input.hscPercentage, 0, 10000)
            /\ InRange(input.sscPercentage, 0, 10000)

\* C1: for every valid input calculateAggregate returns the total of the
\* selected variant's formula (netScore/200*100*0.75 + eq*0.25 with hsc = ssc
\* = 0 and isOALevel, or netScore/200*100*0.75 + hsc*0.15 + ssc*0.10 with
\* isOALevel false), the unrounded contributions sum to the unrounded total,
\* the total returned is that total rounded to two decimals, and it lies in
\* [0,100].  (Fine units: netScore*0.375 is 375 per centi, 0.25 is 250, 0.15
\* is 150, 0.10 is 100.)
C1_AggregateFormula ==
    (fn = "calculateAggregate" /\ RangeValid(arg)) =>
        /\ IF UsesEquivalence(arg)
           THEN /\ res.isOALevel
                /\ res.hscContribution = 0 /\ res.sscContribution = 0
                /\ res.raw.total
                     = 375 * arg.netScore + 250 * arg.equivalencePercentage[1]
                /\ res.raw.net + res.raw.equivalence = res.raw.total
           ELSE /\ ~res.isOALevel
                /\ res.raw.total = 375 * arg.netScore
                     + 150 * arg.hscPercentage + 100 * arg.sscPercentage
                /\ res.raw.net + res.raw.hsc + res.raw.ssc = res.raw.total
        /\ 2 * res.raw.net = 750 * arg.netScore
        /\ 1000 * res.totalAggregate - 500 <= res.raw.total
        /\ res.raw.total < 1000 * res.totalAggregate + 500
        /\ InRange(res.totalAggregate, 0, 10000)

\* The scenario of the specification: 150, 85%, 90% gives
\* 56.25 + 12.75 + 9.00 = 78.00
C1_Witness ==
    /\ fn = "calculateAggregate"
    /\ arg.netScore = 15000 /\ arg.hscPercentage = 8500
    /\ arg.sscPercentage = 9000 /\ ~arg.useEquivalence
    /\ res.netContribution = 5625 /\ res.hscContribution = 1275
    /\ res.sscContribution = 900 /\ res.totalAggregate = 7800

\* The bounds validateAggregateInput tests, as the claim lists them
ViolatedBounds(input) ==
    Count(input.netScore < 0) + Count(input.netScore > 20000)
    + (IF input.useEquivalence
       THEN IF input.equivalencePercentage = Null THEN 1
            ELSE Count(input.equivalencePercentage[1] < 0)
                 + Count(input.equivalencePercentage[1] > 10000)
       ELSE Count(input.hscPercentage < 0) + Count(input.hscPercentage > 10000)
            + Count(input.sscPercentage < 0) + Count(input.sscPercentage > 10000))

\* C2: validateAggregateInput returns isValid = TRUE iff netScore is in
\* [0,200] and (local curriculum) hsc and ssc are in [0,100] or (equivalence
\* curriculum) the equivalence percentage is present and in [0,100]; errors
\* holds one message per violated bound; isValid iff errors is empty.
C2_ValidationAccumulates ==
    fn = "validateAggregateInput" =>
        /\ res.isValid <=>
              /\ InRange(arg.netScore, 0, 20000)
              /\ IF arg.useEquivalence
                 THEN /\ arg.equivalencePercentage # Null
                      /\ InRange(arg.equivalencePercentage[1], 0, 10000)
                 ELSE /\ InRange(arg.hscPercentage, 0, 10000)
                      /\ InRange(arg.sscPercentage, 0, 10000)
        /\ Len(res.errors) = ViolatedBounds(arg)
        /\ Cardinality({res.errors[i] : i \in 1..Len(res.errors)}) = Len(res.errors)
        /\ res.isValid <=> (res.errors = <<>>)

\* Three bounds violated at once, three messages
C2_Witness ==
    /\ fn = "validateAggregateInput"
    /\ arg.netScore > 20000 /\ ~arg.useEquivalence
    /\ arg.hscPercentage < 0 /\ arg.sscPercentage > 10000
    /\ Len(res.errors) = 3 /\ ~res.isValid

-----------------------------------------------------------------------------
(* lib/chancePredictor                                                     *)

PREDICTION_CONFIG_OverlappingRanges ==
    [ THRESHOLDS |-> [ HIGH_ABOVE |-> 2, MEDIUM_HIGH_ABOVE |-> 0,
                       MEDIUM_BELOW |-> -1, LOW_BELOW |-> -3 ],
      CHANCE_RANGES |-> [ HIGH        |-> [min |-> 80, max |-> 95],
                          MEDIUM_HIGH |-> [min |-> 60, max |-> 79],
                          MEDIUM      |-> [min |-> 40, max |-> 65],
                          LOW         |-> [min |-> 15, max |-> 39],
                          VERY_LOW    |-> [min |-> 5,  max |-> 14] ],
      SAFETY_MARGIN |-> 2 ]

PREDICTION_CONFIG ==
    [ THRESHOLDS |-> [ HIGH_ABOVE |-> 2, MEDIUM_HIGH_ABOVE |-> 0,
                       MEDIUM_BELOW |-> -1, LOW_BELOW |-> -3 ],
      CHANCE_RANGES |-> [ HIGH        |-> [min |-> 80, max |-> 95],
                          MEDIUM_HIGH |-> [min |-> 60, max |-> 79],
                          MEDIUM      |-> [min |-> 40, max |-> 59],
                          LOW         |-> [min |-> 15, max |-> 39],
                          VERY_LOW    |-> [min |-> 5,  max |-> 14] ],
      SAFETY_MARGIN |-> 2 ]

\* range.min + (range.max - range.min) * factor, where
\* factor = (difference - lo) / (hi - lo); difference in centi, lo and hi in
\* points.  The rational result is <<num, den>>.
Interpolate(range, difference, lo, hi) ==
    LET width == (hi - lo) * 100
    IN  <<range.min * width + (range.max - range.min) * (difference - lo * 100),
          width>>

\* The five bands: the category and the percentage before Math.round, as the
\* rational num/den
ChanceBands(difference) ==
    LET T == PREDICTION_CONFIG.THRESHOLDS
        R == PREDICTION_CONFIG.CHANCE_RANGES
    IN  IF difference >= T.HIGH_ABOVE * 100
        THEN LET c == Min(R.HIGH.max * 100,
                          R.HIGH.min * 100 + (difference - T.HIGH_ABOVE * 100) * 3)
             IN  [category |-> "High Chance", num |-> c, den |-> 100]
        ELSE IF difference >= T.MEDIUM_HIGH_ABOVE * 100
        THEN LET c == Interpolate(R.MEDIUM_HIGH, difference,
                                  T.MEDIUM_HIGH_ABOVE, T.HIGH_ABOVE)
             IN  [category |-> "Medium Chance", num |-> c[1], den |-> c[2]]
        ELSE IF difference >= T.MEDIUM_BELOW * 100
        THEN LET c == Interpolate(R.MEDIUM, difference,
                                  T.MEDIUM_BELOW, T.MEDIUM_HIGH_ABOVE)
             IN  [category |-> "Medium Chance", num |-> c[1], den |-> c[2]]
        ELSE IF difference >= T.LOW_BELOW * 100
        THEN LET c == Interpolate(R.LOW, difference, T.LOW_BELOW, T.MEDIUM_BELOW)
             IN  [category |-> "Low Chance", num |-> c[1], den |-> c[2]]
        ELSE LET c == Max(R.VERY_LOW.min * 100,
                          R.VERY_LOW.max * 100 + (difference - T.LOW_BELOW * 100) * 2)
             IN  [category |-> "Very Low Chance", num |-> c, den |-> 100]

calculateChanceFromDifferenceTruncates(difference) ==
    LET b == ChanceBands(difference)
    IN  [category |-> b.category, chancePercentage |-> b.num \div b.den]

calculateChanceFromDifference(difference) ==
    LET b == ChanceBands(difference)
    IN  [category |-> b.category, chancePercentage |-> MathRound(b.num, b.den)]

\* createNoDataPrediction of lib/chancePredictor
ChanceNoDataPrediction(userAggregate) ==
    [ chancePercentage |-> 50,
      category |-> "Medium Chance",
      metadata |-> [ userAggregate |-> userAggregate,
                     lastYearClosingAggregate |-> Null,
                     difference |-> Null,
                     dataAvailable |-> FALSE ] ]

CoalesceKeepsFirst(a, b) == a

\* a ?? b
Coalesce(a, b) == IF IsNull(a) THEN b ELSE a

predictChance(input) ==
    LET referenceAggregate ==
            Coalesce(input.lastYearClosingAggregate,
                     Coalesce(input.averageClosingAggregate, Null))
    IN  IF IsNull(referenceAggregate)
        THEN ChanceNoDataPrediction(input.userAggregate)
        ELSE LET difference == input.userAggregate - Val(referenceAggregate)
                 c == calculateChanceFromDifference(difference)
             IN  [ chancePercentage |-> c.chancePercentage,
                   category |-> c.category,
                   metadata |-> [ userAggregate |-> input.userAggregate,
                                  lastYearClosingAggregate |-> referenceAggregate,
                                  difference |-> Some(difference),
                                  dataAvailable |-> TRUE ] ]

-----------------------------------------------------------------------------
(* Inputs of the chance prediction (centi)                                 *)

ChanceGrid == 25

ClosingInputs == {7500, 7813}

AverageInputs == {7650}

ProgramInputs ==
    [ lastYearClosingAggregate : {Null} \cup {Some(c) : c \in ClosingInputs},
      averageClosingAggregate  : {Null} \cup {Some(c) : c \in AverageInputs} ]

\* A grid over the aggregates around the references, and the aggregates next
\* to every band boundary of every reference
UserAggregateInputs ==
    {u \in 6400..8600 : u % ChanceGrid = 0}
        \cup {r + b + e : r \in ClosingInputs \cup AverageInputs,
                          b \in {-300, -100, 0, 200}, e \in {-1, 0, 1}}

InitChance ==
    /\ fn = "none"
    /\ arg = [none |-> TRUE]
    /\ res = [none |-> TRUE]
    /\ prev = NoCall
    /\ program \in ProgramInputs
    /\ store = EmptyStore

ThisCall == [fn |-> fn, arg |-> arg, res |-> res]

\* predictChance for the program, at most twice in a row; the second call
\* keeps the first in prev
PredictChance ==
    /\ prev = NoCall
    /\ fn \in {"none", "predictChance"}
    /\ \E u \in UserAggregateInputs :
        LET input == [ userAggregate |-> u,
                       lastYearClosingAggregate |-> program.lastYearClosingAggregate,
                       averageClosingAggregate |-> program.averageClosingAggregate ]
        IN  /\ fn' = "predictChance"
            /\ arg' = input
            /\ res' = predictChance(input)
    /\ prev' = IF fn = "none" THEN NoCall ELSE ThisCall
    /\ UNCHANGED <<program, store>>

NextChance == PredictChance

SpecChance == InitChance /\ [][NextChance]_vars

-----------------------------------------------------------------------------
(* Claims about lib/chancePredictor                                        *)

\* The reference the prediction compares with, when there is one
Reference(input) ==
    IF input.lastYearClosingAggregate # Null
    THEN input.lastYearClosingAggregate[1]
    ELSE input.averageClosingAggregate[1]

HasReference(input) ==
    input.lastYearClosingAggregate # Null \/ input.averageClosingAggregate # Null

\* c is the integer nearest to num/den (halves up)
Nearest(c, num, den) ==
    2 * c * den - den <= 2 * num /\ 2 * num < 2 * c * den + den

\* C3: with a reference available, diff = userAggregate - reference maps
\* through five contiguous bands, rounded to the nearest integer:
\* diff >= 2: min(95, 80 + 3*(diff-2)), High; 0 <= diff < 2: 60..79 linear,
\* Medium; -1 <= diff < 0: 40..59 linear, Medium; -3 <= diff < -1: 15..39
\* linear, Low; diff < -3: max(5, 14 + 2*(diff+3)), Very Low.  The
\* percentage is an integer inside its band's range.
C3_ChanceBands ==
    (fn = "predictChance" /\ HasReference(arg)) =>
        LET d == arg.userAggregate - Reference(arg)
            c == res.chancePercentage
        IN  /\ d >= 200 =>
                 /\ res.category = "High Chance"
                 /\ Nearest(c, Min(9500, 8000 + 3 * (d - 200)), 100)
                 /\ c \in 80..95
            /\ (0 <= d /\ d < 200) =>
                 /\ res.category = "Medium Chance"
                 /\ Nearest(c, 60 * 200 + 19 * d, 200)
                 /\ c \in 60..79
            /\ (-100 <= d /\ d < 0) =>
                 /\ res.category = "Medium Chance"
                 /\ Nearest(c, 40 * 100 + 19 * (d + 100), 100)
                 /\ c \in 40..59
            /\ (-300 <= d /\ d < -100) =>
                 /\ res.category = "Low Chance"
                 /\ Nearest(c, 15 * 200 + 24 * (d + 300), 200)
                 /\ c \in 15..39
            /\ d < -300 =>
                 /\ res.category = "Very Low Chance"
                 /\ Nearest(c, Max(500, 1400 + 2 * (d + 300)), 100)
                 /\ c \in 5..14

\* The scenario of the specification: 78.00 against 75.00 gives 83, High
C3_Witness ==
    /\ fn = "predictChance"
    /\ arg.userAggregate = 7800
    /\ arg.lastYearClosingAggregate = Some(7500)
    /\ res.chancePercentage = 83
    /\ res.category = "High Chance"

\* C4: for a fixed reference, a <= b implies chance(a) <= chance(b), across
\* the band boundaries and after rounding (two calls for the same program)
C4_ChanceMonotone ==
    (fn = "predictChance" /\ prev.fn = "predictChance") =>
        /\ prev.arg.userAggregate <= arg.userAggregate
              => prev.res.chancePercentage <= res.chancePercentage
        /\ prev.arg.userAggregate >= arg.userAggregate
              => prev.res.chancePercentage >= res.chancePercentage

\* Two calls on either side of the boundary diff = 0: 59 below it, 60 on it
C4_Witness ==
    /\ fn = "predictChance" /\ prev.fn = "predictChance"
    /\ HasReference(arg)
    /\ prev.arg.userAggregate = Reference(arg) - 1
    /\ arg.userAggregate = Reference(arg)
    /\ prev.res.chancePercentage = 59
    /\ res.chancePercentage = 60

-----------------------------------------------------------------------------
(* lib/meritListPredictor                                                  *)

\* DEFAULT_AGGREGATE_DROP_PER_LIST is 1.5, kept in centi
MERIT_LIST_CONFIG ==
    [ MAX_LISTS |-> 8,
      CONFIDENCE_THRESHOLDS |-> [HIGH |-> 2, MEDIUM |-> 0, LOW |-> -2],
      DEFAULT_AGGREGATE_DROP_PER_LIST |-> 150 ]

\* Array.prototype.sort with a comparator that orders by a numeric key
\* ascending (keys[i] is the key of seq[i]): a stable sort, so equal keys keep
\* their order.  The element at position k is the one with k-1 elements
\* before it.
SortedPosition(keys, i) ==
    1 + Cardinality({j \in 1..Len(keys) :
                        \/ keys[j] < keys[i]
                        \/ (keys[j] = keys[i] /\ j < i)})

StableSortByKeys(seq, keys) ==
    [k \in 1..Len(seq) |->
        seq[CHOOSE i \in 1..Len(seq) : SortedPosition(keys, i) = k]]

\* [...thresholds].sort((a, b) => a.meritListNumber - b.meritListNumber)
SortThresholds(thresholds) ==
    StableSortByKeys(thresholds,
        [i \in 1..Len(thresholds) |-> thresholds[i].meritListNumber])

getConfidenceStrict(difference) ==
    LET C == MERIT_LIST_CONFIG.CONFIDENCE_THRESHOLDS
    IN  IF difference > C.HIGH * 100 THEN "High"
        ELSE IF difference > C.MEDIUM * 100 THEN "Medium"
        ELSE "Low"

getConfidence(difference) ==
    LET C == MERIT_LIST_CONFIG.CONFIDENCE_THRESHOLDS
    IN  IF difference >= C.HIGH * 100 THEN "High"
        ELSE IF difference >= C.MEDIUM * 100 THEN "Medium"
        ELSE "Low"

\* The state of the scan before any threshold: closestDifference Null is
\* Infinity
MeritScanStart ==
    [ predictedList |-> Null, confidence |-> "Low",
      alternatives |-> <<>>, closestDifference |-> Null ]

\* One iteration of the loop over the sorted thresholds; the user qualifies
\* for a list when difference >= qualifyFrom (0 in the source)
MeritStepFrom(st, threshold, userAggregate, qualifyFrom) ==
    IF IsNull(threshold.closingAggregate) THEN st
    ELSE LET difference == userAggregate - Val(threshold.closingAggregate)
         IN  IF difference >= qualifyFrom
             THEN IF IsNull(st.predictedList)
                  THEN [ predictedList |-> Some(threshold.meritListNumber),
                         confidence |-> getConfidence(difference),
                         alternatives |-> st.alternatives,
                         closestDifference |-> Some(difference) ]
                  ELSE IF Abs(difference) < Val(st.closestDifference)
                  THEN [ predictedList |-> Some(threshold.meritListNumber),
                         confidence |-> getConfidence(difference),
                         alternatives |->
                             Append(st.alternatives, Val(st.predictedList)),
                         closestDifference |-> Some(difference) ]
                  ELSE [st EXCEPT !.alternatives =
                                      Append(@, threshold.meritListNumber)]
             ELSE IF IsNull(st.predictedList) /\ Abs(difference) < 300
             THEN [st EXCEPT !.alternatives = Append(@, threshold.meritListNumber)]
             ELSE st

MeritStepNearMissQualifies(st, threshold, userAggregate) ==
    MeritStepFrom(st, threshold, userAggregate, -299)

MeritStepKeepsFirstCleared(st, threshold, userAggregate) ==
    LET next == MeritStepFrom(st, threshold, userAggregate, 0)
    IN  IF IsNull(st.predictedList) \/ next.predictedList = st.predictedList
        THEN next
        ELSE [st EXCEPT !.alternatives = Append(@, threshold.meritListNumber)]

MeritStep(st, threshold, userAggregate) ==
    MeritStepFrom(st, threshold, userAggregate, 0)

RECURSIVE MeritScan(_, _, _, _)
MeritScan(st, sortedThresholds, userAggregate, i) ==
    IF i > Len(sortedThresholds) THEN st
    ELSE MeritScan(MeritStep(st, sortedThresholds[i], userAggregate),
                   sortedThresholds, userAggregate, i + 1)

SliceKeepsAll(seq, n) == seq

\* arr.slice(0, n)
Slice(seq, n) == SubSeq(seq, 1, Min(n, Len(seq)))

\* arr.filter(x => x <= limit) of a sequence of numbers
RECURSIVE FilterAtMost(_, _)
FilterAtMost(seq, limit) ==
    IF seq = <<>> THEN <<>>
    ELSE IF Head(seq) <= limit
         THEN <<Head(seq)>> \o FilterAtMost(Tail(seq), limit)
         ELSE FilterAtMost(Tail(seq), limit)

MeritNoDataPredictionStrict(userAggregate) ==
    LET estimatedList ==
            IF userAggregate > 8000 THEN Some(1)
            ELSE IF userAggregate > 7500 THEN Some(2)
            ELSE IF userAggregate > 7000 THEN Some(4)
            ELSE IF userAggregate > 6500 THEN Some(6)
            ELSE Null
    IN  [ predictedList |-> estimatedList,
          confidence |-> "Low",
          alternatives |->
              IF IsNull(estimatedList) THEN <<>>
              ELSE FilterAtMost(<<Val(estimatedList) + 1, Val(estimatedList) + 2>>, 8),
          isEstimate |-> TRUE ]

\* createNoDataPrediction of lib/meritListPredictor
MeritNoDataPrediction(userAggregate) ==
    LET estimatedList ==
            IF userAggregate >= 8000 THEN Some(1)
            ELSE IF userAggregate >= 7500 THEN Some(2)
            ELSE IF userAggregate >= 7000 THEN Some(4)
            ELSE IF userAggregate >= 6500 THEN Some(6)
            ELSE Null
    IN  [ predictedList |-> estimatedList,
          confidence |-> "Low",
          alternatives |->
              IF IsNull(estimatedList) THEN <<>>
              ELSE FilterAtMost(<<Val(estimatedList) + 1, Val(estimatedList) + 2>>, 8),
          isEstimate |-> TRUE ]

predictMeritList(input) ==
    IF Len(input.thresholds) = 0
    THEN MeritNoDataPrediction(input.userAggregate)
    ELSE LET sortedThresholds == SortThresholds(input.thresholds)
             st == MeritScan(MeritScanStart, sortedThresholds, input.userAggregate, 1)
         IN  [ predictedList |-> st.predictedList,
               confidence |-> st.confidence,
               alternatives |-> Slice(st.alternatives, 2),
               isEstimate |-> FALSE ]

\* Math.max(50, baseAggregate - (i - 1) * DEFAULT_AGGREGATE_DROP_PER_LIST)
\* for the lists 1..numLists
generateEstimatedThresholds(baseAggregate, numLists) ==
    [i \in 1..numLists |->
        [ meritListNumber |-> i,
          closingAggregate |->
              Some(Max(5000, baseAggregate
                   - (i - 1) * MERIT_LIST_CONFIG.DEFAULT_AGGREGATE_DROP_PER_LIST)) ]]

-----------------------------------------------------------------------------
(* Inputs of the merit list prediction                                     *)

MaxThresholds == 3

ThresholdClosingInputs == {Null, Some(7400), Some(7700), Some(8000)}

ThresholdInputs ==
    [ meritListNumber : 1..MaxThresholds,
      closingAggregate : ThresholdClosingInputs ]

\* Lists of thresholds in any order, one threshold per merit list at most
ThresholdListInputs ==
    {t \in UNION {[1..n -> ThresholdInputs] : n \in 0..MaxThresholds} :
        \A i, j \in 1..Len(t) :
            i # j => t[i].meritListNumber # t[j].meritListNumber}

MeritUserInputs ==
    {6400, 6499, 6500, 6999, 7000, 7100, 7399, 7400, 7499, 7500, 7600, 7699,
     7700, 7701, 7900, 7999, 8000, 8250}

PredictMeritList ==
    /\ Idle
    /\ \E u \in MeritUserInputs, t \in ThresholdListInputs :
        LET input == [userAggregate |-> u, thresholds |-> t]
        IN  /\ fn' = "predictMeritList"
            /\ arg' = input
            /\ res' = predictMeritList(input)
    /\ UNCHANGED <<prev, program, store>>

NextMerit == PredictMeritList

SpecMerit == InitIdle /\ [][NextMerit]_vars

-----------------------------------------------------------------------------
(* Claims about lib/meritListPredictor                                     *)

\* The merit lists of the input whose closing aggregate the user clears
ClearedLists(input) ==
    {input.thresholds[i].meritListNumber : i \in
        {k \in 1..Len(input.thresholds) :
            /\ input.thresholds[k].closingAggregate # Null
            /\ input.thresholds[k].closingAggregate[1] <= input.userAggregate}}

\* C5: for a non-empty threshold list, a predicted round is a round of the
\* list whose threshold has a closingAggregate, and closingAggregate <=
\* userAggregate
C5_PredictedRoundIsCleared ==
    (fn = "predictMeritList" /\ arg.thresholds # <<>> /\ res.predictedList # Null) =>
        /\ \E i \in 1..Len(arg.thresholds) :
              arg.thresholds[i].meritListNumber = res.predictedList[1]
        /\ \A i \in 1..Len(arg.thresholds) :
              arg.thresholds[i].meritListNumber = res.predictedList[1] =>
                  /\ arg.thresholds[i].closingAggregate # Null
                  /\ arg.thresholds[i].closingAggregate[1] <= arg.userAggregate

\* The scenario of the specification: 80/77/74 and 76 predict round 3, while
\* round 2 is missed by one point
C5_Witness ==
    /\ fn = "predictMeritList"
    /\ arg.userAggregate = 7600
    /\ arg.thresholds = << [meritListNumber |-> 1, closingAggregate |-> Some(8000)],
                           [meritListNumber |-> 2, closingAggregate |-> Some(7700)],
                           [meritListNumber |-> 3, closingAggregate |-> Some(7400)] >>
    /\ res.predictedList = Some(3)

\* C6: for a non-empty threshold list predictedList is the lowest-numbered
\* merit list whose closingAggregate is <= userAggregate, and null when the
\* user clears no list
C6_EarliestClearedList ==
    (fn = "predictMeritList" /\ arg.thresholds # <<>>) =>
        IF ClearedLists(arg) = {}
        THEN res.predictedList = Null
        ELSE /\ res.predictedList # Null
             /\ res.predictedList[1] \in ClearedLists(arg)
             /\ \A n \in ClearedLists(arg) : res.predictedList[1] <= n

-----------------------------------------------------------------------------
(* Reverse calculation of lib/calcAggregate                                *)

\* The target (centi) less the fixed contributions, in fine units, and the
\* NET weight that divides it
RequiredNetSolve(targetAggregate, hscPercentage, sscPercentage, useEquivalence, equivalencePercentage) ==
    IF useEquivalence /\ ~IsNull(equivalencePercentage)
    THEN LET w == AGGREGATE_CONFIG.WEIGHTS_OA_LEVEL
             equivalenceContribution ==
                 Weighted(Val(equivalencePercentage), w.EQUIVALENCE)
         IN  [ rest |-> targetAggregate * 1000 - equivalenceContribution,
               weight |-> w.NET ]
    ELSE LET w == AGGREGATE_CONFIG.WEIGHTS_FSC
             hscContribution == Weighted(hscPercentage, w.HSC)
             sscContribution == Weighted(sscPercentage, w.SSC)
         IN  [ rest |-> targetAggregate * 1000 - hscContribution - sscContribution,
               weight |-> w.NET ]

\* requiredNetPercentage = rest / weight is the rational
\* rest / (weight * 10) centi; requiredNetScore = percentage / 100 * MAX is the
\* rational (rest * MAX) / (weight * 100000) points, written num/den with
\* num = rest and den = weight * 100000 / MAX (exact: 37500) to stay within
\* 32-bit integers
RequiredNetResult(solved, ceiled, achievable) ==
    LET MAX == AGGREGATE_CONFIG.MAX_NET_SCORE
        pctDen == solved.weight * 10
    IN  [ requiredNetScore |-> Max(0, Min(MAX, ceiled)),
          requiredNetPercentage |->
              IF solved.rest <= 0 THEN 0
              ELSE IF solved.rest >= 10000 * pctDen THEN 10000
              ELSE ToFixed2(solved.rest, pctDen),
          achievable |-> achievable ]

calculateRequiredNetScoreRoundsDown(targetAggregate, hscPercentage, sscPercentage, useEquivalence, equivalencePercentage) ==
    LET MAX == AGGREGATE_CONFIG.MAX_NET_SCORE
        solved == RequiredNetSolve(targetAggregate, hscPercentage, sscPercentage,
                                   useEquivalence, equivalencePercentage)
        num == solved.rest
        den == (solved.weight * 100000) \div MAX
    IN  RequiredNetResult(solved, num \div den, num >= 0 /\ num <= MAX * den)

calculateRequiredNetScoreForgetsZero(targetAggregate, hscPercentage, sscPercentage, useEquivalence, equivalencePercentage) ==
    LET MAX == AGGREGATE_CONFIG.MAX_NET_SCORE
        solved == RequiredNetSolve(targetAggregate, hscPercentage, sscPercentage,
                                   useEquivalence, equivalencePercentage)
        num == solved.rest
        den == (solved.weight * 100000) \div MAX
    IN  RequiredNetResult(solved, Ceil(num, den), num <= MAX * den)

calculateRequiredNetScore(targetAggregate, hscPercentage, sscPercentage, useEquivalence, equivalencePercentage) ==
    LET MAX == AGGREGATE_CONFIG.MAX_NET_SCORE
        solved == RequiredNetSolve(targetAggregate, hscPercentage, sscPercentage,
                                   useEquivalence, equivalencePercentage)
        num == solved.rest
        den == (solved.weight * 100000) \div MAX
    IN  RequiredNetResult(solved, Ceil(num, den), num >= 0 /\ num <= MAX * den)

-----------------------------------------------------------------------------
(* Inputs of the reverse calculation (centi)                               *)

TargetGrid == 500

TargetInputs ==
    {t \in 0..11000 : t % TargetGrid = 0}
        \cup {2174, 2175, 2176, 7400, 7600, 7799, 7800, 7801, 7813, 9674, 9675, 9676}

FixedGrid == 2500

FixedPctInputs ==
    {p \in 0..10000 : p % FixedGrid = 0} \cup {1, 3333, 8500, 9000, 9999}

RequiredNetInputs ==
    [ targetAggregate : TargetInputs, hscPercentage : FixedPctInputs,
      sscPercentage : FixedPctInputs, useEquivalence : BOOLEAN,
      equivalencePercentage : {Null} \cup {Some(p) : p \in FixedPctInputs} ]

CalculateRequiredNetScore ==
    /\ Idle
    /\ \E input \in RequiredNetInputs :
        /\ fn' = "calculateRequiredNetScore"
        /\ arg' = input
        /\ res' = calculateRequiredNetScore(input.targetAggregate,
                      input.hscPercentage, input.sscPercentage,
                      input.useEquivalence, input.equivalencePercentage)
    /\ UNCHANGED <<prev, program, store>>

NextRequiredNet == CalculateRequiredNetScore

SpecRequiredNet == InitIdle /\ [][NextRequiredNet]_vars

-----------------------------------------------------------------------------
(* Claims about the reverse calculation                                    *)

\* The forward formula on the score returned, with the same fixed components
ForwardOf(input, requiredNetScore) ==
    calculateAggregate([ netScore |-> requiredNetScore * 100,
                         hscPercentage |-> input.hscPercentage,
                         sscPercentage |-> input.sscPercentage,
                         useEquivalence |-> input.useEquivalence,
                         equivalencePercentage |-> input.equivalencePercentage ])

\* C7: for every achievable target, requiredNetScore fed back into the
\* forward formula with the same fixed components yields an aggregate
\* >= target - 0.01 (before and after the rounding to two decimals)
C7_RoundTripDoesNotUndershoot ==
    (fn = "calculateRequiredNetScore" /\ res.achievable) =>
        LET forward == ForwardOf(arg, res.requiredNetScore)
        IN  /\ forward.raw.total >= (arg.targetAggregate - 1) * 1000
            /\ forward.totalAggregate >= arg.targetAggregate - 1

\* A target whose solved score is not an integer: 78.01 with 85% and 90%
\* needs 150.03, so 151 is returned
C7_Witness ==
    /\ fn = "calculateRequiredNetScore"
    /\ arg.targetAggregate = 7801 /\ arg.hscPercentage = 8500
    /\ arg.sscPercentage = 9000 /\ ~arg.useEquivalence
    /\ res.achievable /\ res.requiredNetScore = 151

\* The target less the fixed components of the variant, in fine units: the
\* solved NET score is Rest / 37500 (one NET point is 0.375 of aggregate)
Rest(input) ==
    IF input.useEquivalence /\ input.equivalencePercentage # Null
    THEN 1000 * input.targetAggregate - 250 * input.equivalencePercentage[1]
    ELSE 1000 * input.targetAggregate - 150 * input.hscPercentage
             - 100 * input.sscPercentage

\* C8: requiredNetScore is an integer in [0,200], the ceiling of the solved
\* score clamped; achievable iff the unclamped solved score lies in [0,200],
\* so FALSE both above 200 and below 0
C8_ClampedAndFlagged ==
    fn = "calculateRequiredNetScore" =>
        LET r == res.requiredNetScore
            rest == Rest(arg)
        IN  /\ r \in 0..200
            /\ res.achievable <=> (0 <= rest /\ rest <= 200 * 37500)
            /\ rest <= 0 => r = 0
            /\ rest >= 200 * 37500 => r = 200
            /\ (0 < rest /\ rest < 200 * 37500) =>
                  (37500 * (r - 1) < rest /\ rest <= 37500 * r)

\* A target already exceeded with a NET score of 0: not achievable, score 0
C8_Witness ==
    /\ fn = "calculateRequiredNetScore"
    /\ ~arg.useEquivalence
    /\ 1000 * arg.targetAggregate
          < 150 * arg.hscPercentage + 100 * arg.sscPercentage
    /\ ~res.achievable /\ res.requiredNetScore = 0

-----------------------------------------------------------------------------
(* lib/netScoreRecommender                                                 *)

NET_RECOMMENDER_CONFIG ==
    [ MARGINS |-> [MINIMUM |-> -1, RECOMMENDED |-> 1, TARGET |-> 3],
      ACHIEVABILITY |-> [ EASY |-> 120, MODERATE |-> 150, CHALLENGING |-> 175,
                          VERY_CHALLENGING |-> 190 ] ]

\* A call that returns value, and a call that throws error
Returned(value) == [threw |-> FALSE, value |-> value]

Thrown(error) == [threw |-> TRUE, error |-> error]

\* const { WEIGHTS } = config: undefined when config has no such property;
\* reading a property of undefined throws a TypeError
HasProperty(config, name) == name \in DOMAIN config

getAchievability(requiredScore) ==
    LET A == NET_RECOMMENDER_CONFIG.ACHIEVABILITY
    IN  IF requiredScore > AGGREGATE_CONFIG.MAX_NET_SCORE THEN "Not Achievable"
        ELSE IF requiredScore <= A.EASY THEN "Easy"
        ELSE IF requiredScore <= A.MODERATE THEN "Moderate"
        ELSE IF requiredScore <= A.CHALLENGING THEN "Challenging"
        ELSE IF requiredScore <= A.VERY_CHALLENGING THEN "Very Challenging"
        ELSE "Very Challenging"

\* arr.filter((score, index, arr) => arr.indexOf(score) === index)
RECURSIVE RemoveDuplicates(_, _)
RemoveDuplicates(seq, i) ==
    IF i > Len(seq) THEN <<>>
    ELSE IF \E j \in 1..(i - 1) : seq[j] = seq[i]
         THEN RemoveDuplicates(seq, i + 1)
         ELSE <<seq[i]>> \o RemoveDuplicates(seq, i + 1)

\* One row of generateScenarios, with the weights it reads
ScenarioRow(netScore, WEIGHTS, hscPercentage, sscPercentage, closingAggregate) ==
    LET netPercentage == netScoreToPercentage(netScore * 100)
        aggregate == netPercentage * WEIGHTS.NET
                     + Weighted(hscPercentage, WEIGHTS.HSC)
                     + Weighted(sscPercentage, WEIGHTS.SSC)
        diff == aggregate - closingAggregate * 1000
    IN  [ netScore |-> netScore,
          resultingAggregate |-> ToFixed2(aggregate, 1000),
          chanceCategory |->
              IF diff >= 2 * 100000 THEN "High Chance"
              ELSE IF diff >= 0 THEN "Medium Chance"
              ELSE IF diff >= -2 * 100000 THEN "Low Chance"
              ELSE "Very Low Chance" ]

\* The loop runs at least once (scorePoints holds recommendedScore), and its
\* first statement that uses WEIGHTS reads WEIGHTS.NET
generateScenarios(hscPercentage, sscPercentage, closingAggregate, recommendedScore) ==
    LET config == AGGREGATE_CONFIG
        MAX == config.MAX_NET_SCORE
        scorePoints ==
            RemoveDuplicates(<< Max(80, recommendedScore - 30),
                                Max(100, recommendedScore - 15),
                                recommendedScore,
                                Min(MAX, recommendedScore + 15),
                                Min(MAX, recommendedScore + 30) >>, 1)
    IN  IF ~HasProperty(config, "WEIGHTS")
        THEN Thrown("TypeError")
        ELSE Returned([k \in 1..Len(scorePoints) |->
                 ScenarioRow(scorePoints[k], config.WEIGHTS, hscPercentage,
                             sscPercentage, closingAggregate)])

\* The effective HSC percentage and the three inversions of
\* getNetScoreRecommendation: calculateRequiredNetScore is called with three
\* arguments, so useEquivalence keeps its default false
RequiredNetResults(input) ==
    LET effectiveHsc ==
            IF input.useEquivalence /\ ~IsNull(input.equivalencePercentage)
            THEN Val(input.equivalencePercentage)
            ELSE input.hscPercentage
        M == NET_RECOMMENDER_CONFIG.MARGINS
        closing == input.lastYearClosingAggregate
    IN  [ effectiveHsc |-> effectiveHsc,
          minimum |->
              calculateRequiredNetScore(closing + M.MINIMUM * 100, effectiveHsc,
                                        input.sscPercentage, FALSE, Null),
          recommended |->
              calculateRequiredNetScore(closing + M.RECOMMENDED * 100, effectiveHsc,
                                        input.sscPercentage, FALSE, Null),
          target |->
              calculateRequiredNetScore(closing + M.TARGET * 100, effectiveHsc,
                                        input.sscPercentage, FALSE, Null) ]

getNetScoreRecommendation(input) ==
    LET results == RequiredNetResults(input)
        effectiveHsc == results.effectiveHsc
        closing == input.lastYearClosingAggregate
        minimumResult == results.minimum
        recommendedResult == results.recommended
        targetResult == results.target
        achievability == getAchievability(recommendedResult.requiredNetScore)
        scenarios == generateScenarios(effectiveHsc, input.sscPercentage,
                                       closing, recommendedResult.requiredNetScore)
    IN  IF scenarios.threw THEN scenarios
        ELSE Returned([ minimumNetScore |-> minimumResult.requiredNetScore,
                        recommendedNetScore |-> recommendedResult.requiredNetScore,
                        targetNetScore |-> targetResult.requiredNetScore,
                        maxNetScore |-> AGGREGATE_CONFIG.MAX_NET_SCORE,
                        achievability |-> achievability,
                        scenarios |-> scenarios.value ])

isProgramAchievable(closingAggregate, hscPercentage, sscPercentage) ==
    IF ~HasProperty(AGGREGATE_CONFIG, "WEIGHTS")
    THEN Thrown("TypeError")
    ELSE LET WEIGHTS == AGGREGATE_CONFIG.WEIGHTS
             maxAggregate == 100 * 1000 * WEIGHTS.NET
                             + Weighted(hscPercentage, WEIGHTS.HSC)
                             + Weighted(sscPercentage, WEIGHTS.SSC)
             gap == closingAggregate * 1000 - maxAggregate
         IN  Returned([ achievable |-> gap <= 0,
                        maxPossibleAggregate |-> ToFixed2(maxAggregate, 1000),
                        gap |-> ToFixed2(Max(0, gap), 1000) ])

-----------------------------------------------------------------------------
(* POST /api/predict                                                       *)

\* JavaScript truthiness of an optional number: present and not 0
Truthy(o) == ~IsNull(o) /\ Val(o) # 0

\* The handler, for a request body and the sample data's record of the
\* program (found tells whether programId names a program of the sample data)
PostPredict(body, found, sample) ==
    IF ~Truthy(body.userAggregate) \/ body.programId = ""
    THEN [status |-> 400, error |-> "userAggregate and programId are required"]
    ELSE IF ~found
    THEN [status |-> 404, error |-> "Program not found"]
    ELSE LET userAggregate == Val(body.userAggregate)
             lastYearClosingAggregate == sample.lastYearClosingAggregate
             chancePrediction ==
                 predictChance([ userAggregate |-> userAggregate,
                                 lastYearClosingAggregate |-> lastYearClosingAggregate,
                                 averageClosingAggregate |-> Null ])
             thresholds ==
                 IF Truthy(lastYearClosingAggregate)
                 THEN generateEstimatedThresholds(Val(lastYearClosingAggregate),
                                                  MERIT_LIST_CONFIG.MAX_LISTS)
                 ELSE <<>>
             meritListPrediction ==
                 predictMeritList([ userAggregate |-> userAggregate,
                                    thresholds |-> thresholds ])
             wantsNet == /\ Truthy(body.hscPercentage)
                         /\ Truthy(body.sscPercentage)
                         /\ Truthy(lastYearClosingAggregate)
             net == getNetScoreRecommendation(
                        [ lastYearClosingAggregate |-> Val(lastYearClosingAggregate),
                          hscPercentage |-> Val(body.hscPercentage),
                          sscPercentage |-> Val(body.sscPercentage),
                          useEquivalence |-> FALSE,
                          equivalencePercentage |-> Null ])
         IN  IF wantsNet /\ net.threw
             THEN [status |-> 500, error |-> "Failed to generate prediction"]
             ELSE [ status |-> 200,
                    success |-> TRUE,
                    lastYearClosingAggregate |-> lastYearClosingAggregate,
                    chancePrediction |-> chancePrediction,
                    meritListPrediction |-> meritListPrediction,
                    netRecommendation |->
                        IF wantsNet THEN Some(net.value) ELSE Null ]

-----------------------------------------------------------------------------
(* Inputs of the recommender and of the handler                            *)

RecommendationInputs ==
    [ lastYearClosingAggregate : ClosingInputs \cup {0, 5000, 10000},
      hscPercentage : FixedPctInputs, sscPercentage : FixedPctInputs,
      useEquivalence : BOOLEAN,
      equivalencePercentage : {Null, Some(0), Some(8000)} ]

PredictBodyInputs ==
    [ userAggregate : {Null, Some(0), Some(7000), Some(7800)},
      programId : {"", "known"},
      hscPercentage : {Null, Some(0), Some(8500)},
      sscPercentage : {Null, Some(0), Some(9000)} ]

GetNetScoreRecommendation ==
    /\ Idle
    /\ \E input \in RecommendationInputs :
        /\ fn' = "getNetScoreRecommendation"
        /\ arg' = input
        /\ res' = getNetScoreRecommendation(input)
    /\ UNCHANGED <<prev, program, store>>

IsProgramAchievable ==
    /\ Idle
    /\ \E c \in ClosingInputs \cup {0, 5000, 10000},
          h \in FixedPctInputs, s \in FixedPctInputs :
        /\ fn' = "isProgramAchievable"
        /\ arg' = [closingAggregate |-> c, hscPercentage |-> h, sscPercentage |-> s]
        /\ res' = isProgramAchievable(c, h, s)
    /\ UNCHANGED <<prev, program, store>>

\* The sample data holds the program with the closing data of this behaviour
PostApiPredict ==
    /\ Idle
    /\ \E body \in PredictBodyInputs, found \in BOOLEAN :
        /\ fn' = "POST /api/predict"
        /\ arg' = [body |-> body, found |-> found]
        /\ res' = PostPredict(body, found, program)
    /\ UNCHANGED <<prev, program, store>>

NextRecommender ==
    GetNetScoreRecommendation \/ IsProgramAchievable \/ PostApiPredict

SpecRecommender == InitChance /\ [][NextRecommender]_vars

-----------------------------------------------------------------------------
(* Claims about the recommender and the handler                            *)

\* C9: every core function returns a result for range-valid input and never
\* throws: getNetScoreRecommendation and isProgramAchievable return, and
\* POST /api/predict called with hscPercentage, sscPercentage and a program
\* that has a closing aggregate answers success with a netRecommendation
C9_NoThrow ==
    /\ fn \in {"getNetScoreRecommendation", "isProgramAchievable"} => ~res.threw
    /\ ( /\ fn = "POST /api/predict"
         /\ arg.body.userAggregate \notin {Null, Some(0)}
         /\ arg.body.programId # "" /\ arg.found
         /\ arg.body.hscPercentage \notin {Null, Some(0)}
         /\ arg.body.sscPercentage \notin {Null, Some(0)}
         /\ program.lastYearClosingAggregate # Null )
       => (res.status = 200 /\ res.netRecommendation # Null)

-----------------------------------------------------------------------------
(* lib/preferenceGenerator                                                 *)
(* Scores are whole percentages; overallScore is kept in hundredths (the   *)
(* weights 0.4, 0.35, 0.15, 0.10 are 40, 35, 15, 10).                      *)

PREFERENCE_CONFIG_EvenMix ==
    [ RISK_THRESHOLDS |-> [SAFE |-> 70, MODERATE |-> 40],
      SCORING_WEIGHTS |-> [ CHANCE |-> 40, INTEREST |-> 35, CAMPUS_PREF |-> 15,
                            MERIT_LIST |-> 10 ],
      RECOMMENDED_MIX |->
          [ Conservative |-> [safe |-> 4, moderate |-> 3, ambitious |-> 3],
            Moderate     |-> [safe |-> 4, moderate |-> 3, ambitious |-> 3],
            Aggressive   |-> [safe |-> 4, moderate |-> 3, ambitious |-> 3] ] ]

PREFERENCE_CONFIG ==
    [ RISK_THRESHOLDS |-> [SAFE |-> 70, MODERATE |-> 40],
      SCORING_WEIGHTS |-> [ CHANCE |-> 40, INTEREST |-> 35, CAMPUS_PREF |-> 15,
                            MERIT_LIST |-> 10 ],
      RECOMMENDED_MIX |->
          [ Conservative |-> [safe |-> 6, moderate |-> 3, ambitious |-> 1],
            Moderate     |-> [safe |-> 4, moderate |-> 4, ambitious |-> 2],
            Aggressive   |-> [safe |-> 2, moderate |-> 4, ambitious |-> 4] ] ]

\* interests.disciplineScores[program.disciplineGroup] || 3, as a percentage
getInterestScore(p, interests) ==
    LET scores == interests.disciplineScores
        group == p.disciplineGroup
        disciplineScore ==
            IF group \in DOMAIN scores /\ scores[group] # 0
            THEN scores[group] ELSE 3
    IN  disciplineScore * 20

\* preferredCampuses.indexOf(campus), 0-based, -1 when absent
IndexOf(seq, x) ==
    IF \E i \in 1..Len(seq) : seq[i] = x
    THEN (CHOOSE i \in 1..Len(seq) :
              seq[i] = x /\ \A j \in 1..(i - 1) : seq[j] # x) - 1
    ELSE -1

getCampusPreferenceScore(campus, preferredCampuses) ==
    LET index == IndexOf(preferredCampuses, campus)
    IN  IF index = -1 THEN 50 ELSE Max(10, 100 - index * 15)

getMeritListScore(predictedList) ==
    IF IsNull(predictedList) THEN 20
    ELSE Max(10, 100 - (Val(predictedList) - 1) * 12)

calculateOverallScoreSwapsWeights(chancePercentage, interestScore, campusScore, meritListScore) ==
    LET W == PREFERENCE_CONFIG.SCORING_WEIGHTS
    IN  chancePercentage * W.INTEREST + interestScore * W.CHANCE
        + campusScore * W.CAMPUS_PREF + meritListScore * W.MERIT_LIST

calculateOverallScore(chancePercentage, interestScore, campusScore, meritListScore) ==
    LET W == PREFERENCE_CONFIG.SCORING_WEIGHTS
    IN  chancePercentage * W.CHANCE + interestScore * W.INTEREST
        + campusScore * W.CAMPUS_PREF + meritListScore * W.MERIT_LIST

getRiskCategoryAtHighChance(chancePercentage) ==
    IF chancePercentage >= PREDICTION_CONFIG.CHANCE_RANGES.HIGH.min THEN "Safe"
    ELSE IF chancePercentage >= PREFERENCE_CONFIG.RISK_THRESHOLDS.MODERATE
    THEN "Moderate"
    ELSE "Ambitious"

getRiskCategory(chancePercentage) ==
    LET T == PREFERENCE_CONFIG.RISK_THRESHOLDS
    IN  IF chancePercentage >= T.SAFE THEN "Safe"
        ELSE IF chancePercentage >= T.MODERATE THEN "Moderate"
        ELSE "Ambitious"

\* The callback of programs.map: the item of one program, rank still 0
ScoreProgram(userAggregate, p, interests) ==
    LET chancePrediction ==
            predictChance([ userAggregate |-> userAggregate,
                            lastYearClosingAggregate |-> p.lastYearClosingAggregate,
                            averageClosingAggregate |-> Null ])
        thresholds ==
            IF Truthy(p.lastYearClosingAggregate)
            THEN generateEstimatedThresholds(Val(p.lastYearClosingAggregate),
                                             MERIT_LIST_CONFIG.MAX_LISTS)
            ELSE <<>>
        meritListPrediction ==
            predictMeritList([userAggregate |-> userAggregate,
                              thresholds |-> thresholds])
        interestScore == getInterestScore(p, interests)
        campusScore == getCampusPreferenceScore(p.campus, interests.preferredCampuses)
        meritListScore == getMeritListScore(meritListPrediction.predictedList)
    IN  [ rank |-> 0,
          program |-> p,
          riskCategory |-> getRiskCategory(chancePrediction.chancePercentage),
          chancePercentage |-> chancePrediction.chancePercentage,
          predictedMeritList |-> meritListPrediction.predictedList,
          interestScore |-> interestScore,
          overallScore |->
              calculateOverallScore(chancePrediction.chancePercentage,
                                    interestScore, campusScore, meritListScore) ]

SortByOverallScoreAscending(scoredPrograms) ==
    StableSortByKeys(scoredPrograms,
        [i \in 1..Len(scoredPrograms) |-> scoredPrograms[i].overallScore])

\* scoredPrograms.sort((a, b) => b.overallScore - a.overallScore)
SortByOverallScore(scoredPrograms) ==
    StableSortByKeys(scoredPrograms,
        [i \in 1..Len(scoredPrograms) |-> -scoredPrograms[i].overallScore])

\* scoredPrograms.forEach((item, index) => { item.rank = index + 1 })
AssignRanks(scoredPrograms) ==
    [k \in 1..Len(scoredPrograms) |-> [scoredPrograms[k] EXCEPT !.rank = k]]

\* scoredPrograms.filter(p => p.riskCategory === category)
RECURSIVE FilterByRisk(_, _, _)
FilterByRisk(items, category, i) ==
    IF i > Len(items) THEN <<>>
    ELSE IF items[i].riskCategory = category
         THEN <<items[i]>> \o FilterByRisk(items, category, i + 1)
         ELSE FilterByRisk(items, category, i + 1)

\* scoredPrograms.reduce((sum, p) => sum + p.chancePercentage, 0)
RECURSIVE SumChance(_, _)
SumChance(items, i) ==
    IF i > Len(items) THEN 0
    ELSE items[i].chancePercentage + SumChance(items, i + 1)

\* The ratios are count / totalPrograms and the mix is in tenths.  In
\* floating point 0.4 - 0.1 is just above 0.3, so for the Moderate tolerance
\* a safe ratio of exactly 3/10 is below the safe threshold; the other
\* thresholds compare as their decimal values do.
generateRecommendations(summary, riskTolerance) ==
    LET recommended == PREFERENCE_CONFIG.RECOMMENDED_MIX[riskTolerance]
        n == summary.totalPrograms
        fewSafe ==
            IF riskTolerance = "Moderate"
            THEN summary.safeCount * 10 <= (recommended.safe - 1) * n
            ELSE summary.safeCount * 10 < (recommended.safe - 1) * n
        manyAmbitious ==
            summary.ambitiousCount * 10 > (recommended.ambitious + 2) * n
        recommendations ==
            (IF fewSafe
             THEN <<"Consider adding more safe options to your list for better security.">>
             ELSE <<>>)
            \o (IF summary.safeCount = 0
                THEN <<"You have no safe options. Strongly consider adding programs with high admission chances.">>
                ELSE <<>>)
            \o (IF manyAmbitious
                THEN <<"Your list is heavy on ambitious choices. This is risky - ensure you have backups.">>
                ELSE <<>>)
            \o (IF n < 5
                THEN <<"Consider adding more program options to increase your chances of admission.">>
                ELSE <<>>)
            \o (IF n > 15
                THEN <<"You have many options selected. Focus on your top 10-12 preferences.">>
                ELSE <<>>)
    IN  IF Len(recommendations) = 0
        THEN <<"Your preference list has a good balance of safe, moderate, and ambitious choices.">>
        ELSE recommendations

createEmptyResultSilent ==
    [ rankedList |-> <<>>,
      byRisk |-> [safe |-> <<>>, moderate |-> <<>>, ambitious |-> <<>>],
      summary |-> [ totalPrograms |-> 0, safeCount |-> 0, moderateCount |-> 0,
                    ambitiousCount |-> 0,
                    averageChance |-> [num |-> 0, den |-> 0] ],
      recommendations |-> <<>> ]

\* averageChance is kept as the fraction num / den
createEmptyResult ==
    [ rankedList |-> <<>>,
      byRisk |-> [safe |-> <<>>, moderate |-> <<>>, ambitious |-> <<>>],
      summary |-> [ totalPrograms |-> 0, safeCount |-> 0, moderateCount |-> 0,
                    ambitiousCount |-> 0,
                    averageChance |-> [num |-> 0, den |-> 1] ],
      recommendations |->
          <<"Please select some programs to generate a preference list.">> ]

generatePreferenceList(userAggregate, programs, interests) ==
    IF Len(programs) = 0 THEN createEmptyResult
    ELSE LET scoredPrograms ==
                 AssignRanks(SortByOverallScore(
                     [i \in 1..Len(programs) |->
                         ScoreProgram(userAggregate, programs[i], interests)]))
             byRisk == [ safe |-> FilterByRisk(scoredPrograms, "Safe", 1),
                         moderate |-> FilterByRisk(scoredPrograms, "Moderate", 1),
                         ambitious |-> FilterByRisk(scoredPrograms, "Ambitious", 1) ]
             summary ==
                 [ totalPrograms |-> Len(scoredPrograms),
                   safeCount |-> Len(byRisk.safe),
                   moderateCount |-> Len(byRisk.moderate),
                   ambitiousCount |-> Len(byRisk.ambitious),
                   averageChance |-> [ num |-> SumChance(scoredPrograms, 1),
                                       den |-> Len(scoredPrograms) ] ]
         IN  [ rankedList |-> scoredPrograms,
               byRisk |-> byRisk,
               summary |-> summary,
               recommendations |->
                   generateRecommendations(summary, interests.riskTolerance) ]

-----------------------------------------------------------------------------
(* Inputs of the preference list                                           *)

MaxPrograms == 3

\* Candidate programs; se-h12 and me-h12 score alike for every user
ProgramOptions ==
    { [ programId |-> "se-h12", campus |-> "H-12",
        disciplineGroup |-> "Engineering", lastYearClosingAggregate |-> Some(7500) ],
      [ programId |-> "me-h12", campus |-> "H-12",
        disciplineGroup |-> "Engineering", lastYearClosingAggregate |-> Some(7500) ],
      [ programId |-> "cs-risalpur", campus |-> "Risalpur",
        disciplineGroup |-> "Computing", lastYearClosingAggregate |-> Some(7813) ],
      [ programId |-> "bba-h12", campus |-> "H-12",
        disciplineGroup |-> "Business", lastYearClosingAggregate |-> Null ],
      [ programId |-> "new-karachi", campus |-> "Karachi",
        disciplineGroup |-> "Computing", lastYearClosingAggregate |-> Some(0) ] }

\* Lists of distinct candidates, in every order
ProgramListInputs ==
    UNION { { s \in [1..n -> ProgramOptions] :
                  \A i, j \in 1..n : i # j => s[i] # s[j] } : n \in 0..MaxPrograms }

DisciplineScoreInputs ==
    { [g \in {} |-> 0],
      [g \in {"Engineering", "Computing"} |->
          IF g = "Engineering" THEN 5 ELSE 2],
      [g \in {"Engineering", "Computing", "Business"} |->
          IF g = "Engineering" THEN 1 ELSE IF g = "Computing" THEN 5 ELSE 0] }

InterestsInputs ==
    [ disciplineScores : DisciplineScoreInputs,
      preferredCampuses :
          { <<>>, <<"H-12">>, <<"Risalpur", "H-12">>,
            <<"Rawalpindi", "Quetta", "Lahore", "Peshawar", "Multan", "H-12",
              "Risalpur", "Karachi">> },
      riskTolerance : {"Conservative", "Moderate", "Aggressive"} ]

PreferenceUserInputs == {6000, 7000, 7500, 7700, 8000}

GeneratePreferenceList ==
    /\ Idle
    /\ \E userAggregate \in PreferenceUserInputs,
          programs \in ProgramListInputs, interests \in InterestsInputs :
        /\ fn' = "generatePreferenceList"
        /\ arg' = [ userAggregate |-> userAggregate, programs |-> programs,
                    interests |-> interests ]
        /\ res' = generatePreferenceList(userAggregate, programs, interests)
    /\ UNCHANGED <<prev, program, store>>

NextPreference == GeneratePreferenceList

SpecPreference == InitIdle /\ [][NextPreference]_vars

-----------------------------------------------------------------------------
(* Claims about the preference list                                        *)

\* The number of positions of seq that hold x
Occurrences(seq, x) == Cardinality({k \in 1..Len(seq) : seq[k] = x})

\* The programs of a ranked list, in its order
ProgramsOf(rankedList) == [k \in 1..Len(rankedList) |-> rankedList[k].program]

\* C10: rankedList is a permutation of the input candidates (each input
\* program exactly once), sorted descending by overallScore, candidates of
\* equal overallScore keep their input order, and rank is the 1-based
\* position (ranks are exactly 1..n)
C10_RankedListIsStableSortedPermutation ==
    fn = "generatePreferenceList" =>
        LET in == arg.programs
            out == res.rankedList
        IN  /\ Len(out) = Len(in)
            /\ \A p \in ProgramOptions :
                   Occurrences(ProgramsOf(out), p) = Occurrences(in, p)
            /\ \A k \in 1..Len(out) :
                   out[k] = [ScoreProgram(arg.userAggregate, out[k].program,
                                          arg.interests) EXCEPT !.rank = k]
            /\ \A j, k \in 1..Len(out) :
                   j < k =>
                       /\ out[j].overallScore >= out[k].overallScore
                       /\ out[j].overallScore = out[k].overallScore
                              => IndexOf(in, out[j].program)
                                     < IndexOf(in, out[k].program)

\* A list of three candidates that the sort reorders, two of which tie
C10_Witness ==
    /\ fn = "generatePreferenceList"
    /\ Len(arg.programs) = 3
    /\ res.rankedList[1].program # arg.programs[1]
    /\ \E j, k \in 1..3 :
           /\ j < k
           /\ res.rankedList[j].overallScore = res.rankedList[k].overallScore
           /\ res.rankedList[j].program.programId = "me-h12"
           /\ res.rankedList[k].program.programId = "se-h12"

\* The set of the elements of seq
Elements(seq) == {seq[k] : k \in 1..Len(seq)}

\* C11: each item's riskCategory is determined by its chancePercentage alone
\* (>= 70 Safe, >= 40 Moderate, else Ambitious); the three byRisk groups
\* partition rankedList; safeCount + moderateCount + ambitiousCount =
\* totalPrograms = the number of input candidates; and averageChance is the
\* arithmetic mean of the items' chancePercentage
C11_RiskGroupsPartitionAndSummary ==
    fn = "generatePreferenceList" =>
        LET out == res.rankedList
            g == res.byRisk
            s == res.summary
            n == Len(arg.programs)
            CategoryOf(c) == IF c >= 70 THEN "Safe"
                             ELSE IF c >= 40 THEN "Moderate" ELSE "Ambitious"
            Total[k \in 0..Len(out)] ==
                IF k = 0 THEN 0 ELSE Total[k - 1] + out[k].chancePercentage
        IN  /\ \A k \in 1..Len(out) :
                   out[k].riskCategory = CategoryOf(out[k].chancePercentage)
            /\ \A x \in Elements(g.safe) : x.riskCategory = "Safe"
            /\ \A x \in Elements(g.moderate) : x.riskCategory = "Moderate"
            /\ \A x \in Elements(g.ambitious) : x.riskCategory = "Ambitious"
            /\ Elements(g.safe) \cup Elements(g.moderate) \cup Elements(g.ambitious)
                   = Elements(out)
            /\ Len(g.safe) + Len(g.moderate) + Len(g.ambitious) = Len(out)
            /\ s.safeCount = Len(g.safe)
            /\ s.moderateCount = Len(g.moderate)
            /\ s.ambitiousCount = Len(g.ambitious)
            /\ s.safeCount + s.moderateCount + s.ambitiousCount = s.totalPrograms
            /\ s.totalPrograms = n
            /\ n > 0 => s.averageChance.num * n = Total[Len(out)] * s.averageChance.den

\* Three candidates, one in each risk group
C11_Witness ==
    /\ fn = "generatePreferenceList"
    /\ Len(arg.programs) = 3
    /\ Len(res.byRisk.safe) = 1
    /\ Len(res.byRisk.moderate) = 1
    /\ Len(res.byRisk.ambitious) = 1

-----------------------------------------------------------------------------
(* Claims about the fallback flags                                         *)

\* C12: isEstimate is true whenever the merit-list prediction is not based
\* on real per-round thresholds: POST /api/predict only ever predicts from no
\* thresholds or from the synthetic ladder of generateEstimatedThresholds, so
\* every prediction it returns is flagged isEstimate
C12_SyntheticLadderIsFlaggedEstimate ==
    (fn = "POST /api/predict" /\ res.status = 200)
        => res.meritListPrediction.isEstimate

\* C13: with no reference (lastYearClosingAggregate and
\* averageClosingAggregate both null) predictChance returns the fixed neutral
\* result: chancePercentage 50, Medium Chance, dataAvailable false,
\* difference null, whatever userAggregate is; with a reference
\* (lastYearClosingAggregate if non-null, else averageClosingAggregate)
\* dataAvailable is true
C13_NeutralWithoutReference ==
    fn = "predictChance" =>
        /\ ~HasReference(arg) =>
              /\ res.chancePercentage = 50
              /\ res.category = "Medium Chance"
              /\ res.metadata.dataAvailable = FALSE
              /\ res.metadata.difference = Null
              /\ res.metadata.lastYearClosingAggregate = Null
              /\ prev.fn = "predictChance" =>
                    /\ prev.res.chancePercentage = res.chancePercentage
                    /\ prev.res.category = res.category
        /\ HasReference(arg) =>
              /\ res.metadata.dataAvailable = TRUE
              /\ res.metadata.lastYearClosingAggregate = Some(Reference(arg))
              /\ res.metadata.difference
                     = Some(arg.userAggregate - Reference(arg))

\* Two calls without a reference, for different aggregates
C13_Witness ==
    /\ fn = "predictChance"
    /\ prev.fn = "predictChance"
    /\ ~HasReference(arg)
    /\ prev.arg.userAggregate < 6500
    /\ arg.userAggregate > 8500
    /\ res.chancePercentage = 50
    /\ res.metadata.dataAvailable = FALSE

\* C14: with no thresholds predictMeritList uses only userAggregate: >= 80
\* predicts list 1, >= 75 list 2, >= 70 list 4, >= 65 list 6, otherwise
\* null; confidence is Low, isEstimate is true, and alternatives is
\* [predicted+1, predicted+2] restricted to values <= 8 (empty when nothing
\* is predicted)
C14_HeuristicWithoutThresholds ==
    (fn = "predictMeritList" /\ arg.thresholds = <<>>) =>
        LET u == arg.userAggregate
            expected == IF u >= 8000 THEN Some(1)
                        ELSE IF u >= 7500 THEN Some(2)
                        ELSE IF u >= 7000 THEN Some(4)
                        ELSE IF u >= 6500 THEN Some(6)
                        ELSE Null
        IN  /\ res.predictedList = expected
            /\ res.confidence = "Low"
            /\ res.isEstimate = TRUE
            /\ expected = Null => res.alternatives = <<>>
            /\ expected # Null =>
                  /\ \A k \in 1..Len(res.alternatives) : res.alternatives[k] <= 8
                  /\ res.alternatives
                         = SelectSeq(<<expected[1] + 1, expected[1] + 2>>,
                                     LAMBDA n : n <= 8)

\* Exactly 70 with no thresholds: list 4 with alternatives 5 and 6
C14_Witness ==
    /\ fn = "predictMeritList"
    /\ arg.thresholds = <<>>
    /\ arg.userAggregate = 7000
    /\ res.predictedList = Some(4)
    /\ res.alternatives = <<5, 6>>
    /\ res.isEstimate

\* C15: generatePreferenceList with an empty candidate list returns
\* rankedList = [], three empty byRisk groups, a summary whose totalPrograms,
\* safeCount, moderateCount, ambitiousCount and averageChance are all 0 (no
\* division by zero), and the single recommendation 'Please select some
\* programs to generate a preference list.'
C15_EmptyCandidateListFailsSoft ==
    (fn = "generatePreferenceList" /\ arg.programs = <<>>) =>
        /\ res.rankedList = <<>>
        /\ res.byRisk.safe = <<>>
        /\ res.byRisk.moderate = <<>>
        /\ res.byRisk.ambitious = <<>>
        /\ res.summary.totalPrograms = 0
        /\ res.summary.safeCount = 0
        /\ res.summary.moderateCount = 0
        /\ res.summary.ambitiousCount = 0
        /\ res.summary.averageChance.num = 0
        /\ res.summary.averageChance.den # 0
        /\ res.recommendations
               = <<"Please select some programs to generate a preference list.">>

\* A call with no candidates, for an Aggressive user with preferences
C15_Witness ==
    /\ fn = "generatePreferenceList"
    /\ arg.programs = <<>>
    /\ arg.interests.riskTolerance = "Aggressive"
    /\ arg.interests.preferredCampuses # <<>>
    /\ Len(res.recommendations) = 1

-----------------------------------------------------------------------------
(* scripts/importMeritData: the import functions and the database they     *)
(* write through prisma.  Row values are already numbers, for which         *)
(* parseInt(String(v)) and parseFloat(String(v)) return v.                  *)

\* value ? parse(value) : null, and value || null
OrNull(o) == IF Truthy(o) THEN o ELSE Null

\* prisma.program.upsert({ where: { code }, update, create }): the record
\* with this code is overwritten, or a new record is created
ProgramUpsert(db, programData) ==
    IF \E p \in db.programs : p.code = programData.code
    THEN [db EXCEPT !.programs =
             {IF p.code = programData.code
              THEN [ id |-> p.id, code |-> p.code, name |-> programData.name,
                     seats |-> programData.seats ]
              ELSE p : p \in db.programs}]
    ELSE [db EXCEPT !.programs = @ \cup {[ id |-> db.nextId,
                                          code |-> programData.code,
                                          name |-> programData.name,
                                          seats |-> programData.seats ]},
                    !.nextId = @ + 1]

\* prisma.meritHistory.upsert with where programId_year_meritListNumber =
\* (programId, year, meritListNumber ?? 0): a record with that key has its
\* data columns updated, otherwise meritData is created as it is (its
\* meritListNumber may be null, and null never equals a key value)
MeritHistoryUpsert(db, meritData) ==
    LET key == Coalesce(meritData.meritListNumber, Some(0))
        Matches(m) == /\ m.programId = meritData.programId
                      /\ m.year = meritData.year
                      /\ m.meritListNumber = key
    IN  IF \E m \in db.meritHistory : Matches(m)
        THEN [db EXCEPT !.meritHistory =
                 {IF Matches(m)
                  THEN [m EXCEPT
                          !.closingMeritPosition = meritData.closingMeritPosition,
                          !.closingAggregate = meritData.closingAggregate,
                          !.sourceName = meritData.sourceName,
                          !.sourceUrl = meritData.sourceUrl,
                          !.notes = meritData.notes]
                  ELSE m : m \in db.meritHistory}]
        ELSE [db EXCEPT
                 !.meritHistory = @ \cup
                     {[ id |-> db.nextId,
                        programId |-> meritData.programId,
                        year |-> meritData.year,
                        meritListNumber |-> meritData.meritListNumber,
                        closingMeritPosition |-> meritData.closingMeritPosition,
                        closingAggregate |-> meritData.closingAggregate,
                        sourceName |-> meritData.sourceName,
                        sourceUrl |-> meritData.sourceUrl,
                        notes |-> meritData.notes ]},
                 !.nextId = @ + 1]

\* The state of an import: the database and the ImportResult so far
ImportStart(db) ==
    [ db |-> db,
      result |-> [success |-> 0, failed |-> 0, skipped |-> 0, errors |-> <<>>] ]

ImportMeritRowAlwaysSaves(st, row, programCodeMap, dryRun) ==
    IF row.programCode \notin DOMAIN programCodeMap
    THEN [st EXCEPT !.result.skipped = @ + 1,
                    !.result.errors = Append(@, <<"Program not found", row.programCode>>)]
    ELSE [ db |-> MeritHistoryUpsert(st.db,
                     [ programId |-> programCodeMap[row.programCode],
                       year |-> row.year,
                       meritListNumber |-> OrNull(row.meritListNumber),
                       closingMeritPosition |-> OrNull(row.closingMeritPosition),
                       closingAggregate |-> OrNull(row.closingAggregate),
                       sourceName |-> row.sourceName,
                       sourceUrl |-> OrNull(row.sourceUrl),
                       notes |-> OrNull(row.notes) ]),
           result |-> [st.result EXCEPT !.success = @ + 1] ]

\* One iteration of the loop of importMeritData
ImportMeritRow(st, row, programCodeMap, dryRun) ==
    IF row.programCode \notin DOMAIN programCodeMap
    THEN [st EXCEPT !.result.skipped = @ + 1,
                    !.result.errors = Append(@, <<"Program not found", row.programCode>>)]
    ELSE LET meritData ==
                 [ programId |-> programCodeMap[row.programCode],
                   year |-> row.year,
                   meritListNumber |-> OrNull(row.meritListNumber),
                   closingMeritPosition |-> OrNull(row.closingMeritPosition),
                   closingAggregate |-> OrNull(row.closingAggregate),
                   sourceName |-> row.sourceName,
                   sourceUrl |-> OrNull(row.sourceUrl),
                   notes |-> OrNull(row.notes) ]
         IN  IF dryRun
             THEN [st EXCEPT !.result.success = @ + 1]
             ELSE [ db |-> MeritHistoryUpsert(st.db, meritData),
                    result |-> [st.result EXCEPT !.success = @ + 1] ]

RECURSIVE ImportMeritRows(_, _, _, _, _)
ImportMeritRows(st, data, programCodeMap, dryRun, i) ==
    IF i > Len(data) THEN st
    ELSE ImportMeritRows(ImportMeritRow(st, data[i], programCodeMap, dryRun),
                         data, programCodeMap, dryRun, i + 1)

\* new Map(programs.map(p => [p.code, p.id])), read once before the loop
ProgramCodeMap(db) ==
    [c \in {p.code : p \in db.programs} |->
        (CHOOSE p \in db.programs : p.code = c).id]

importMeritData(db, data, dryRun) ==
    ImportMeritRows(ImportStart(db), data, ProgramCodeMap(db), dryRun, 1)

\* One iteration of the loop of importPrograms
ImportProgramRow(st, row, dryRun) ==
    LET programData == [ name |-> row.name, code |-> row.code,
                         seats |-> OrNull(row.seats) ]
    IN  IF dryRun
        THEN [st EXCEPT !.result.success = @ + 1]
        ELSE [ db |-> ProgramUpsert(st.db, programData),
               result |-> [st.result EXCEPT !.success = @ + 1] ]

RECURSIVE ImportProgramRows(_, _, _, _)
ImportProgramRows(st, data, dryRun, i) ==
    IF i > Len(data) THEN st
    ELSE ImportProgramRows(ImportProgramRow(st, data[i], dryRun), data, dryRun, i + 1)

importPrograms(db, data, dryRun) ==
    ImportProgramRows(ImportStart(db), data, dryRun, 1)

-----------------------------------------------------------------------------
(* Inputs of the import script                                             *)

MaxRows == 2

SeecsCs == [id |-> 1, code |-> "SEECS-CS", name |-> "BS Computer Science", seats |-> Some(150)]

StoreInputs ==
    { EmptyStore,
      [programs |-> {SeecsCs}, meritHistory |-> {}, nextId |-> 2],
      [ programs |-> {SeecsCs},
        meritHistory |->
            {[ id |-> 2, programId |-> 1, year |-> 2024,
               meritListNumber |-> Some(1), closingMeritPosition |-> Some(380),
               closingAggregate |-> Some(8250), sourceName |-> "Official NUST",
               sourceUrl |-> Null, notes |-> Null ]},
        nextId |-> 3 ] }

MeritRowInputs ==
    [ programCode : {"SEECS-CS", "SMME-ME"},
      year : {2023, 2024},
      meritListNumber : {Null, Some(1), Some(2)},
      closingMeritPosition : {Null},
      closingAggregate : {Some(0), Some(8100)},
      sourceName : {"Import"},
      sourceUrl : {Null},
      notes : {Null} ]

ProgramRowInputs ==
    [ name : {"BS Computer Science", "BS Mechanical Engineering"},
      code : {"SEECS-CS", "SMME-ME"},
      seats : {Null, Some(120)} ]

RowLists(rows) == UNION {[1..n -> rows] : n \in 0..MaxRows}

InitImport ==
    /\ fn = "none"
    /\ arg = [none |-> TRUE]
    /\ res = [none |-> TRUE]
    /\ prev = NoCall
    /\ program = NoProgram
    /\ store \in StoreInputs

ImportMeritData ==
    /\ Idle
    /\ \E data \in RowLists(MeritRowInputs), dryRun \in BOOLEAN :
        LET done == importMeritData(store, data, dryRun)
        IN  /\ fn' = "importMeritData"
            /\ arg' = [data |-> data, dryRun |-> dryRun]
            /\ res' = done.result
            /\ store' = done.db
    /\ UNCHANGED <<prev, program>>

ImportPrograms ==
    /\ Idle
    /\ \E data \in RowLists(ProgramRowInputs), dryRun \in BOOLEAN :
        LET done == importPrograms(store, data, dryRun)
        IN  /\ fn' = "importPrograms"
            /\ arg' = [data |-> data, dryRun |-> dryRun]
            /\ res' = done.result
            /\ store' = done.db
    /\ UNCHANGED <<prev, program>>

\* The script is run a second time over the same file, not as a dry run;
\* prev keeps the store as the first run left it
ImportMeritDataAgain ==
    /\ fn = "importMeritData"
    /\ ~arg.dryRun
    /\ LET done == importMeritData(store, arg.data, FALSE)
       IN  /\ fn' = "importMeritData again"
           /\ arg' = arg
           /\ res' = done.result
           /\ store' = done.db
           /\ prev' = [once |-> store]
    /\ UNCHANGED program

NextImport == ImportMeritData \/ ImportPrograms \/ ImportMeritDataAgain

SpecImport == InitImport /\ [][NextImport]_vars

-----------------------------------------------------------------------------
(* Claims about the import script                                          *)

\* C16: a dry run saves nothing: with dryRun = true, importMeritData and
\* importPrograms leave the programs and the merit-history records of the
\* store exactly as they were, for any input rows
C16_DryRunSavesNothing ==
    [][ (fn' \in {"importMeritData", "importPrograms"} /\ arg'.dryRun)
            => store' = store ]_vars

\* A dry run over rows that a real run would have saved
C16_Witness ==
    /\ fn = "importMeritData"
    /\ arg.dryRun
    /\ Len(arg.data) = 2
    /\ res.success = 2
    /\ store.meritHistory = {}
    /\ store.programs # {}

-----------------------------------------------------------------------------
(* Further claims about lib/meritListPredictor                             *)

\* The merit list numbers of the input
ListNumbers(input) ==
    {input.thresholds[i].meritListNumber : i \in 1..Len(input.thresholds)}

\* The threshold of merit list n, and the lists that carry a closingAggregate
ThresholdOf(input, n) ==
    input.thresholds[CHOOSE i \in 1..Len(input.thresholds) :
                         input.thresholds[i].meritListNumber = n]

ListsWithClosing(input) ==
    {n \in ListNumbers(input) : ThresholdOf(input, n).closingAggregate # Null}

\* userAggregate - closingAggregate of merit list n
Margin(input, n) ==
    input.userAggregate - ThresholdOf(input, n).closingAggregate[1]

\* n has the smallest margin of the cleared lists in among, and the lowest
\* number of those with that margin
IsClosestCleared(input, n, among) ==
    /\ n \in among
    /\ \A m \in among :
          \/ Margin(input, n) < Margin(input, m)
          \/ (Margin(input, n) = Margin(input, m) /\ n <= m)

\* The cleared lists numbered below n
ClearedBefore(input, n) == {m \in ClearedLists(input) : m < n}

\* What list n adds to the alternatives candidates, if anything
CandidateOf(input, n) ==
    IF n \notin ListsWithClosing(input) THEN <<>>
    ELSE IF n \in ClearedLists(input)
    THEN IF ClearedBefore(input, n) = {} THEN <<>>
         ELSE LET held == CHOOSE m \in ClearedBefore(input, n) :
                              IsClosestCleared(input, m, ClearedBefore(input, n))
              IN  IF Margin(input, n) < Margin(input, held)
                  THEN <<held>> ELSE <<n>>
    ELSE IF ClearedBefore(input, n) = {} /\ -Margin(input, n) < 300
         THEN <<n>> ELSE <<>>

\* The alternatives candidates, list by list in ascending number
RECURSIVE CandidatesUpTo(_, _)
CandidatesUpTo(input, n) ==
    IF n = 0 THEN <<>>
    ELSE CandidatesUpTo(input, n - 1) \o CandidateOf(input, n)

C18_ConfidenceFromMargin ==
    (fn = "predictMeritList" /\ arg.thresholds # <<>>) =>
        /\ res.predictedList # Null =>
              LET margin == Margin(arg, res.predictedList[1])
              IN  /\ margin >= 200 => res.confidence = "High"
                  /\ (0 <= margin /\ margin < 200) => res.confidence = "Medium"
                  /\ margin >= 0
        /\ (res.confidence = "Low") <=> (res.predictedList = Null)

\* The example of the claim: 80/77/74 with 76 predicts round 3, whose margin
\* is exactly 2, with confidence High
C18_Witness ==
    /\ fn = "predictMeritList"
    /\ arg.userAggregate = 7600
    /\ Len(arg.thresholds) = 3
    /\ ThresholdOf(arg, 1).closingAggregate = Some(8000)
    /\ ThresholdOf(arg, 2).closingAggregate = Some(7700)
    /\ ThresholdOf(arg, 3).closingAggregate = Some(7400)
    /\ res.predictedList = Some(3)
    /\ res.confidence = "High"

\* Every entry of the alternatives is a round of the list the user clears
\* but that is not the predicted one, or a round the user misses by less
\* than 3 points; there are at most 2 entries and no round appears twice
AlternativesAreOtherRounds(input, result) ==
    LET alt == result.alternatives
    IN  /\ Len(alt) <= 2
        /\ \A j, k \in 1..Len(alt) : j # k => alt[j] # alt[k]
        /\ \A k \in 1..Len(alt) :
              \/ /\ alt[k] \in ClearedLists(input)
                 /\ result.predictedList # Some(alt[k])
              \/ /\ alt[k] \in ListsWithClosing(input)
                 /\ Margin(input, alt[k]) < 0
                 /\ Margin(input, alt[k]) > -300

-----------------------------------------------------------------------------
(* Further claims about lib/netScoreRecommender                            *)

\* The target less the fixed contributions (fine units) for the recommended
\* target closing + 1 of a recommendation input; the required NET score is
\* this divided by 37500
RecommendedRest(input) ==
    LET effectiveHsc ==
            IF input.useEquivalence /\ input.equivalencePercentage # Null
            THEN input.equivalencePercentage[1] ELSE input.hscPercentage
    IN  1000 * (input.lastYearClosingAggregate + 100) - 150 * effectiveHsc
            - 100 * input.sscPercentage

\* C20: getNetScoreRecommendation classifies the NET score required for the
\* recommended target (closing + 1): Easy when <= 120, Moderate when <= 150,
\* Challenging when <= 175, Very Challenging when above 175 and within 200,
\* Not Achievable when the target requires more than the maximum of 200
C20_AchievabilityBands ==
    fn = "getNetScoreRecommendation" =>
        /\ ~res.threw
        /\ LET rest == RecommendedRest(arg)
           IN  res.value.achievability =
                   IF rest > 200 * 37500 THEN "Not Achievable"
                   ELSE IF rest <= 120 * 37500 THEN "Easy"
                   ELSE IF rest <= 150 * 37500 THEN "Moderate"
                   ELSE IF rest <= 175 * 37500 THEN "Challenging"
                   ELSE "Very Challenging"

\* C21: for an equivalence-curriculum input (useEquivalence true,
\* equivalencePercentage e) the minimum, recommended and target NET scores
\* of getNetScoreRecommendation equal calculateRequiredNetScore of
\* closing - 1, closing + 1 and closing + 3 under the equivalence weights
\* (netPct * 0.75 + e * 0.25), whatever hscPercentage and sscPercentage are:
\* the inversions the function computes are those, and it returns them
C21_EquivalenceInverseConsistent ==
    ( /\ fn = "getNetScoreRecommendation"
      /\ arg.useEquivalence
      /\ arg.equivalencePercentage # Null ) =>
        LET c == arg.lastYearClosingAggregate
            Inverse(t) ==
                calculateRequiredNetScore(t, arg.hscPercentage, arg.sscPercentage,
                                          TRUE, arg.equivalencePercentage).requiredNetScore
            computed == RequiredNetResults(arg)
        IN  /\ computed.minimum.requiredNetScore = Inverse(c - 100)
            /\ computed.recommended.requiredNetScore = Inverse(c + 100)
            /\ computed.target.requiredNetScore = Inverse(c + 300)
            /\ ~res.threw
            /\ res.value.minimumNetScore = Inverse(c - 100)
            /\ res.value.recommendedNetScore = Inverse(c + 100)
            /\ res.value.targetNetScore = Inverse(c + 300)

\* C22: getNetScoreRecommendation returns 3 to 5 scenario rows with
\* pairwise distinct netScore values, one of them the recommended NET score;
\* each row's resultingAggregate is the forward local-curriculum aggregate
\* of that netScore, and its chanceCategory is the category predictChance's
\* bands give to diff = resultingAggregate - closing aggregate
C22_ScenarioRows ==
    fn = "getNetScoreRecommendation" =>
        /\ ~res.threw
        /\ LET rows == res.value.scenarios
               Forward(netScore) ==
                   calculateAggregate(
                       [ netScore |-> netScore * 100,
                         hscPercentage |-> RequiredNetResults(arg).effectiveHsc,
                         sscPercentage |-> arg.sscPercentage,
                         useEquivalence |-> FALSE,
                         equivalencePercentage |-> Null ]).totalAggregate
           IN  /\ Len(rows) \in 3..5
               /\ \A j, k \in 1..Len(rows) :
                      j # k => rows[j].netScore # rows[k].netScore
               /\ \E k \in 1..Len(rows) :
                      rows[k].netScore = res.value.recommendedNetScore
               /\ \A k \in 1..Len(rows) :
                      /\ rows[k].resultingAggregate = Forward(rows[k].netScore)
                      /\ rows[k].chanceCategory =
                             calculateChanceFromDifference(
                                 rows[k].resultingAggregate
                                     - arg.lastYearClosingAggregate).category

-----------------------------------------------------------------------------
(* Further claims about lib/preferenceGenerator                            *)

\* The sub-scores the claim gives for a program: the rating of its
\* discipline as a percentage (60 when unrated), and the score of its campus
\* at the first place it holds in preferredCampuses (50 when unlisted)
ExpectedInterest(p, interests) ==
    IF p.disciplineGroup \in DOMAIN interests.disciplineScores
    THEN interests.disciplineScores[p.disciplineGroup] * 20
    ELSE 60

ExpectedCampus(p, interests) ==
    LET pc == interests.preferredCampuses
        places == {i \in 1..Len(pc) : pc[i] = p.campus}
    IN  IF places = {} THEN 50
        ELSE LET first == CHOOSE i \in places : \A j \in places : i <= j
             IN  Max(10, 100 - 15 * (first - 1))

ExpectedRoundTiming(predictedRound) ==
    IF predictedRound = Null THEN 20
    ELSE Max(10, 100 - 12 * (predictedRound[1] - 1))

\* The discipline of p is unrated or rated 1..5
RatedInRange(p, interests) ==
    p.disciplineGroup \in DOMAIN interests.disciplineScores
        => interests.disciplineScores[p.disciplineGroup] \in 1..5

\* C23: for each candidate overallScore = 0.40 * chancePercentage
\* + 0.35 * interest + 0.15 * campus + 0.10 * roundTiming (here in
\* hundredths), with interest = rating / 5 * 100 for a rating in 1..5 (60
\* when unrated), campus = max(10, 100 - 15 * index) (50 when unlisted) and
\* roundTiming = max(10, 100 - 12 * (predictedRound - 1)) (20 when no round
\* is predicted); every sub-score and overallScore lies in [0, 100]
C23_OverallScoreFormula ==
    fn = "generatePreferenceList" =>
        \A k \in 1..Len(res.rankedList) :
            LET item == res.rankedList[k]
                interest == ExpectedInterest(item.program, arg.interests)
                campus == ExpectedCampus(item.program, arg.interests)
                roundTiming == ExpectedRoundTiming(item.predictedMeritList)
            IN  RatedInRange(item.program, arg.interests) =>
                    /\ item.interestScore = interest
                    /\ item.overallScore = 40 * item.chancePercentage
                           + 35 * interest + 15 * campus + 10 * roundTiming
                    /\ item.chancePercentage \in 0..100
                    /\ interest \in 0..100
                    /\ campus \in 0..100
                    /\ roundTiming \in 0..100
                    /\ item.overallScore \in 0..10000

\* A candidate with an unrated discipline, a campus eighth in the
\* preferences (floored at 10) and no predicted round
C23_Witness ==
    /\ fn = "generatePreferenceList"
    /\ \E k \in 1..Len(res.rankedList) :
          /\ res.rankedList[k].program.programId = "new-karachi"
          /\ res.rankedList[k].predictedMeritList = Null
          /\ res.rankedList[k].interestScore = 60
          /\ Len(arg.interests.preferredCampuses) = 8
          /\ res.rankedList[k].chancePercentage = 95
          /\ res.rankedList[k].overallScore = 6250

-----------------------------------------------------------------------------
(* generateRecommendations over summaries of any size                      *)

MaxSummaryTotal == 16

\* The summaries of non-empty lists: counts per risk group and their total
SummaryInputs ==
    { [ totalPrograms |-> s + m + a, safeCount |-> s, moderateCount |-> m,
        ambitiousCount |-> a ] :
          s \in 0..MaxSummaryTotal, m \in 0..MaxSummaryTotal,
          a \in 0..MaxSummaryTotal } \cap
    [ totalPrograms : 1..MaxSummaryTotal, safeCount : 0..MaxSummaryTotal,
      moderateCount : 0..MaxSummaryTotal, ambitiousCount : 0..MaxSummaryTotal ]

GenerateRecommendations ==
    /\ Idle
    /\ \E summary \in SummaryInputs,
          riskTolerance \in {"Conservative", "Moderate", "Aggressive"} :
        /\ fn' = "generateRecommendations"
        /\ arg' = [summary |-> summary, riskTolerance |-> riskTolerance]
        /\ res' = generateRecommendations(summary, riskTolerance)
    /\ UNCHANGED <<prev, program, store>>

NextRecommendations == GenerateRecommendations

SpecRecommendations == InitIdle /\ [][NextRecommendations]_vars

\* The messages of the rules
AddSafeAdvisory ==
    "Consider adding more safe options to your list for better security."

NoSafeWarning ==
    "You have no safe options. Strongly consider adding programs with high admission chances."

AmbitiousHeavyAdvisory ==
    "Your list is heavy on ambitious choices. This is risky - ensure you have backups."

BroadenAdvice ==
    "Consider adding more program options to increase your chances of admission."

NarrowAdvice ==
    "You have many options selected. Focus on your top 10-12 preferences."

DefaultMessage ==
    "Your preference list has a good balance of safe, moderate, and ambitious choices."

\* The safe and ambitious shares recommended for a risk tolerance, in tenths
RecommendedSafeTenths(riskTolerance) ==
    IF riskTolerance = "Conservative" THEN 6
    ELSE IF riskTolerance = "Moderate" THEN 4 ELSE 2

RecommendedAmbitiousTenths(riskTolerance) ==
    IF riskTolerance = "Conservative" THEN 1
    ELSE IF riskTolerance = "Moderate" THEN 2 ELSE 4

\* C24 (as stated): the rebalancing advisory appears iff the Safe share
\* safeCount / totalPrograms deviates (either way) by more than 10
\* percentage points from the share recommended for the risk tolerance; the
\* no-safe warning iff safeCount = 0; the broadening advice iff
\* totalPrograms < 5; the narrowing advice iff totalPrograms > 15; the
\* default message iff none of these rules triggered; never empty
C24_RecommendationRulesAsStated ==
    fn = "generateRecommendations" =>
        LET s == arg.summary
            n == s.totalPrograms
            rec == RecommendedSafeTenths(arg.riskTolerance)
            Has(msg) == \E k \in 1..Len(res) : res[k] = msg
            deviates == \/ 10 * s.safeCount < (rec - 1) * n
                        \/ 10 * s.safeCount > (rec + 1) * n
        IN  /\ Has(AddSafeAdvisory) <=> deviates
            /\ Has(NoSafeWarning) <=> s.safeCount = 0
            /\ Has(BroadenAdvice) <=> n < 5
            /\ Has(NarrowAdvice) <=> n > 15
            /\ Has(DefaultMessage)
                   <=> ~(deviates \/ s.safeCount = 0 \/ n < 5 \/ n > 15)
            /\ Len(res) > 0

\* C24 (amended): the add-safe advisory appears iff the Safe share is below
\* the recommended share by more than 10 percentage points (for the
\* Moderate tolerance also when it is below by exactly 10 points, because
\* 0.4 - 0.1 evaluates just above 0.3); the ambitious-heavy advisory iff the
\* Ambitious share exceeds its recommended share by more than 20 points; the
\* no-safe warning iff safeCount = 0; the broadening advice iff
\* totalPrograms < 5; the narrowing advice iff totalPrograms > 15; the
\* default message iff none of these five rules triggered; never empty
C24_RecommendationRules ==
    fn = "generateRecommendations" =>
        LET s == arg.summary
            n == s.totalPrograms
            rec == RecommendedSafeTenths(arg.riskTolerance)
            amb == RecommendedAmbitiousTenths(arg.riskTolerance)
            Has(msg) == \E k \in 1..Len(res) : res[k] = msg
            fewSafe == \/ 10 * s.safeCount < (rec - 1) * n
                       \/ /\ arg.riskTolerance = "Moderate"
                          /\ 10 * s.safeCount = 3 * n
            manyAmbitious == 10 * s.ambitiousCount > (amb + 2) * n
        IN  /\ Has(AddSafeAdvisory) <=> fewSafe
            /\ Has(AmbitiousHeavyAdvisory) <=> manyAmbitious
            /\ Has(NoSafeWarning) <=> s.safeCount = 0
            /\ Has(BroadenAdvice) <=> n < 5
            /\ Has(NarrowAdvice) <=> n > 15
            /\ Has(DefaultMessage)
                   <=> ~(fewSafe \/ manyAmbitious \/ s.safeCount = 0
                            \/ n < 5 \/ n > 15)
            /\ Len(res) > 0
            /\ \A j, k \in 1..Len(res) : j # k => res[j] # res[k]

\* A balanced list of ten for a Moderate user: only the default message
C24_Witness ==
    /\ fn = "generateRecommendations"
    /\ arg.riskTolerance = "Moderate"
    /\ arg.summary.totalPrograms = 10
    /\ arg.summary.safeCount = 4
    /\ arg.summary.ambitiousCount = 2
    /\ res = <<DefaultMessage>>

-----------------------------------------------------------------------------
(* Further claims about lib/calcAggregate                                  *)

\* C25: for every valid input the contributions as returned (each rounded
\* to 2 decimals) add up to the returned total: netContribution +
\* hscContribution + sscContribution (local curriculum) or netContribution +
\* equivalenceContribution (equivalence curriculum) equals totalAggregate
C25_RoundedContributionsSumToTotal ==
    (fn = "calculateAggregate" /\ RangeValid(arg)) =>
        IF UsesEquivalence(arg)
        THEN res.netContribution + res.equivalenceContribution[1]
                 = res.totalAggregate
        ELSE res.netContribution + res.hscContribution + res.sscContribution
                 = res.totalAggregate

-----------------------------------------------------------------------------
(* GET /api/programs and GET /api/merit-history.  A query parameter is     *)
(* Null when absent and Some(v) when present; year and meritListNumber     *)
(* carry the number parseInt reads from them.                              *)

\* if (param): the string is present and not empty
Present(param) == ~IsNull(param) /\ Val(param) # ""

\* The strings of the catalogue in ascending order, for orderBy
Alphabetical ==
    << "BE Electrical Engineering", "BS Computer Science",
       "BS Mechanical Engineering", "H-12", "Karachi", "PNEC", "SEECS", "SMME" >>

\* orderBy campus asc, school asc, name asc
ProgramBefore(p, q) ==
    LET c(x) == IndexOf(Alphabetical, x)
    IN  \/ c(p.campus) < c(q.campus)
        \/ p.campus = q.campus /\ c(p.school) < c(q.school)
        \/ p.campus = q.campus /\ p.school = q.school /\ c(p.name) < c(q.name)

RECURSIVE OrderPrograms(_)
OrderPrograms(S) ==
    IF S = {} THEN <<>>
    ELSE LET first == CHOOSE p \in S : \A q \in S \ {p} : ProgramBefore(p, q)
         IN  <<first>> \o OrderPrograms(S \ {first})

\* orderBy year desc, meritListNumber asc
MeritBefore(m, n) ==
    \/ m.year > n.year
    \/ m.year = n.year /\ Val(m.meritListNumber) < Val(n.meritListNumber)

RECURSIVE OrderMeritHistory(_)
OrderMeritHistory(S) ==
    IF S = {} THEN <<>>
    ELSE LET first == CHOOSE m \in S : \A n \in S \ {m} : MeritBefore(m, n)
         IN  <<first>> \o OrderMeritHistory(S \ {first})

\* Array.prototype.filter
RECURSIVE FilterPrograms(_, _, _, _)
FilterPrograms(seq, campus, school, disciplineGroup) ==
    IF seq = <<>> THEN <<>>
    ELSE LET p == Head(seq)
             keep == /\ ~(Present(campus) /\ p.campus # Val(campus))
                     /\ ~(Present(school) /\ p.school # Val(school))
                     /\ ~(Present(disciplineGroup)
                            /\ p.disciplineGroup # Val(disciplineGroup))
         IN  (IF keep THEN <<p>> ELSE <<>>)
                 \o FilterPrograms(Tail(seq), campus, school, disciplineGroup)

\* The bundled data/sampleMeritData.json: two programs and their history
sampleData ==
    [ programs |->
        << [ id |-> "seecs-cs", name |-> "BS Computer Science", code |-> "SEECS-CS",
             campus |-> "H-12", school |-> "SEECS", disciplineGroup |-> "Computing" ],
           [ id |-> "pnec-ee", name |-> "BE Electrical Engineering", code |-> "PNEC-EE",
             campus |-> "Karachi", school |-> "PNEC", disciplineGroup |-> "Engineering" ] >>,
      meritHistory |->
        << [ programId |-> "seecs-cs", year |-> 2024, meritListNumber |-> Some(1),
             closingAggregate |-> Some(8250) ],
           [ programId |-> "seecs-cs", year |-> 2023, meritListNumber |-> Some(1),
             closingAggregate |-> Some(8100) ],
           [ programId |-> "pnec-ee", year |-> 2024, meritListNumber |-> Some(2),
             closingAggregate |-> Some(7000) ] >> ]

\* GET /api/programs; dbFails tells whether prisma.program.findMany rejects
GetPrograms(db, campus, school, disciplineGroup, dbFails) ==
    IF dbFails
    THEN [programs |-> sampleData.programs, source |-> Some("sample")]
    ELSE LET where(p) == /\ Present(campus) => p.campus = Val(campus)
                         /\ Present(school) => p.school = Val(school)
                         /\ Present(disciplineGroup)
                                => p.disciplineGroup = Val(disciplineGroup)
             programs == OrderPrograms({p \in db.programs : where(p)})
         IN  IF Len(programs) = 0
             THEN [ programs |-> FilterPrograms(sampleData.programs, campus,
                                                school, disciplineGroup),
                    source |-> Null ]
             ELSE [programs |-> programs, source |-> Null]

\* include: { program: { select: name, code, campus, school } }
IncludeProgram(programs, m) ==
    LET p == CHOOSE x \in programs : x.id = m.programId
    IN  [ id |-> m.id, programId |-> m.programId, year |-> m.year,
          meritListNumber |-> m.meritListNumber,
          closingAggregate |-> m.closingAggregate,
          program |-> Some([ name |-> p.name, code |-> p.code,
                             campus |-> p.campus, school |-> p.school ]) ]

\* The sample record as the fallback returns it; an id of merit history is
\* the tuple of its parts, here programId-year-meritListNumber
SampleMeritRecord(m) ==
    LET found == {i \in 1..Len(sampleData.programs) :
                      sampleData.programs[i].id = m.programId}
        p == sampleData.programs[CHOOSE i \in found : \A j \in found : i <= j]
    IN  [ id |-> <<m.programId, m.year, m.meritListNumber>>,
          programId |-> m.programId, year |-> m.year,
          meritListNumber |-> m.meritListNumber,
          closingAggregate |-> m.closingAggregate,
          program |-> IF found = {} THEN Null
                      ELSE Some([ name |-> p.name, code |-> p.code,
                                  campus |-> p.campus, school |-> p.school ]) ]

RECURSIVE FilterSampleMerit(_, _, _, _)
FilterSampleMerit(seq, programId, year, meritListNumber) ==
    IF seq = <<>> THEN <<>>
    ELSE LET m == Head(seq)
             keep == /\ ~(Present(programId) /\ m.programId # Val(programId))
                     /\ ~(~IsNull(year) /\ m.year # Val(year))
                     /\ ~(~IsNull(meritListNumber)
                            /\ m.meritListNumber # meritListNumber)
         IN  (IF keep THEN <<SampleMeritRecord(m)>> ELSE <<>>)
                 \o FilterSampleMerit(Tail(seq), programId, year, meritListNumber)

\* GET /api/merit-history
GetMeritHistory(db, programId, year, meritListNumber, dbFails) ==
    IF dbFails
    THEN [meritHistory |-> sampleData.meritHistory, source |-> Some("sample")]
    ELSE LET where(m) == /\ Present(programId) => m.programId = Val(programId)
                         /\ ~IsNull(year) => m.year = Val(year)
                         /\ ~IsNull(meritListNumber)
                                => m.meritListNumber = meritListNumber
             found == OrderMeritHistory({m \in db.meritHistory : where(m)})
             meritHistory == [i \in 1..Len(found) |->
                                  IncludeProgram(db.programs, found[i])]
         IN  IF Len(meritHistory) = 0
             THEN [ meritHistory |-> FilterSampleMerit(sampleData.meritHistory,
                                         programId, year, meritListNumber),
                    source |-> Some("sample") ]
             ELSE [meritHistory |-> meritHistory, source |-> Null]

-----------------------------------------------------------------------------
(* Inputs of the data-access endpoints                                     *)

DbPrograms ==
    { [ id |-> "db-1", name |-> "BS Computer Science", code |-> "SEECS-CS",
        campus |-> "H-12", school |-> "SEECS", disciplineGroup |-> "Computing" ],
      [ id |-> "db-2", name |-> "BS Mechanical Engineering", code |-> "SMME-ME",
        campus |-> "H-12", school |-> "SMME", disciplineGroup |-> "Engineering" ] }

DbMeritHistory ==
    { [ id |-> <<"db-3">>, programId |-> "db-1", year |-> 2024,
        meritListNumber |-> Some(1), closingAggregate |-> Some(8300) ],
      [ id |-> <<"db-4">>, programId |-> "db-1", year |-> 2024,
        meritListNumber |-> Some(2), closingAggregate |-> Some(8200) ] }

\* Databases in which every merit-history record belongs to a program
ApiStoreInputs ==
    { [programs |-> ps, meritHistory |-> ms, nextId |-> 5] :
          <<ps, ms>> \in { x \in (SUBSET DbPrograms) \X (SUBSET DbMeritHistory) :
                             \A m \in x[2] : \E p \in x[1] : p.id = m.programId } }

InitApi ==
    /\ fn = "none"
    /\ arg = [none |-> TRUE]
    /\ res = [none |-> TRUE]
    /\ prev = NoCall
    /\ program = NoProgram
    /\ store \in ApiStoreInputs

GetApiPrograms ==
    /\ Idle
    /\ \E campus \in {Null, Some(""), Some("H-12"), Some("Karachi")},
          school \in {Null, Some("SEECS"), Some("PNEC")},
          disciplineGroup \in {Null, Some("Engineering")},
          dbFails \in BOOLEAN :
        /\ fn' = "GET /api/programs"
        /\ arg' = [ campus |-> campus, school |-> school,
                    disciplineGroup |-> disciplineGroup, dbFails |-> dbFails ]
        /\ res' = GetPrograms(store, campus, school, disciplineGroup, dbFails)
    /\ UNCHANGED <<prev, program, store>>

GetApiMeritHistory ==
    /\ Idle
    /\ \E programId \in {Null, Some("db-1"), Some("seecs-cs")},
          year \in {Null, Some(2023), Some(2024)},
          meritListNumber \in {Null, Some(1), Some(2)},
          dbFails \in BOOLEAN :
        /\ fn' = "GET /api/merit-history"
        /\ arg' = [ programId |-> programId, year |-> year,
                    meritListNumber |-> meritListNumber, dbFails |-> dbFails ]
        /\ res' = GetMeritHistory(store, programId, year, meritListNumber, dbFails)
    /\ UNCHANGED <<prev, program, store>>

NextApi == GetApiPrograms \/ GetApiMeritHistory

SpecApi == InitApi /\ [][NextApi]_vars

-----------------------------------------------------------------------------
(* Claims about the data-access endpoints                                  *)

\* The records the database can answer with
StoreProgramRecords == store.programs

StoreMeritRecords == {IncludeProgram(store.programs, m) : m \in store.meritHistory}

\* C26: sample data is served only when the store is empty: whenever the
\* database answers and holds at least one record of the requested kind,
\* every record of the response of GET /api/programs and of GET
\* /api/merit-history is a record of the store, for every combination of
\* filter parameters
C26_SampleOnlyWhenStoreEmpty ==
    /\ (fn = "GET /api/programs" /\ ~arg.dbFails /\ store.programs # {})
           => Elements(res.programs) \subseteq StoreProgramRecords
    /\ (fn = "GET /api/merit-history" /\ ~arg.dbFails /\ store.meritHistory # {})
           => Elements(res.meritHistory) \subseteq StoreMeritRecords

-----------------------------------------------------------------------------
(* Further claims about the import script                                  *)

\* C27: importing merit data is idempotent: after importMeritData has run
\* twice over the same rows (not as a dry run) the store holds the same
\* merit-history records as after the first run, and at most one record per
\* (program, year, meritListNumber), rows without a meritListNumber included
C27_ImportTwiceEqualsOnce ==
    fn = "importMeritData again" =>
        /\ store.meritHistory = prev.once.meritHistory
        /\ \A m, n \in store.meritHistory :
               (/\ m.programId = n.programId
                /\ m.year = n.year
                /\ m.meritListNumber = n.meritListNumber) => m = n

-----------------------------------------------------------------------------
(* Further claims about lib/preferenceGenerator                            *)

\* C28: the chance and the merit-list prediction of one item agree: for a
\* program with a known closing aggregate c, predictedMeritList is 1 if and
\* only if userAggregate >= c, and so every item with chancePercentage >= 60
\* has predictedMeritList = 1
C28_ChanceAndMeritListAgree ==
    fn = "generatePreferenceList" =>
        \A k \in 1..Len(res.rankedList) :
            LET item == res.rankedList[k]
                c == item.program.lastYearClosingAggregate
            IN  /\ ~IsNull(c) =>
                       (item.predictedMeritList = Some(1)
                            <=> arg.userAggregate >= Val(c))
                /\ item.chancePercentage >= 60
                       => item.predictedMeritList = Some(1)

-----------------------------------------------------------------------------
(* Further claims about the reverse calculation                            *)

\* C29: calculateRequiredNetScore returns the least sufficient integer
\* score: for every achievable target with requiredNetScore >= 1, the NET
\* score requiredNetScore - 1 fed into the forward formula with the same
\* fixed components yields an aggregate strictly below the target
C29_LeastSufficientScore ==
    (fn = "calculateRequiredNetScore" /\ res.achievable /\ res.requiredNetScore >= 1) =>
        ForwardOf(arg, res.requiredNetScore - 1).totalAggregate < arg.targetAggregate

-----------------------------------------------------------------------------
(* components/AggregateForm.  arg holds the fields of the form, res holds  *)
(* errors, result and isCalculating, prev counts the events delivered and  *)
(* names the last handler.  Marks are whole numbers; scores and            *)
(* percentages are in hundredths.                                          *)

\* useState initial values
AggregateFormFields ==
    [ inputMode |-> "marks",
      fscTotalMarks |-> "1100", customFscTotal |-> 1100,
      fscObtainedMarks |-> 0, fscPercentage |-> 0,
      sscTotalMarks |-> "1100", customSscTotal |-> 1100,
      sscObtainedMarks |-> 0, sscPercentage |-> 0,
      netScore |-> 0,
      useEquivalence |-> FALSE, equivalenceInputMode |-> "marks",
      equivalenceObtainedMarks |-> 0, equivalenceTotalMarks |-> 1100,
      equivalencePercentage |-> 0 ]

AggregateFormOutput == [errors |-> <<>>, result |-> Null, isCalculating |-> FALSE]

\* parseInt of the option chosen
ParseTotalMarks(option) ==
    IF option = "550" THEN 550 ELSE IF option = "1050" THEN 1050 ELSE 1100

actualFscTotal(f) ==
    IF f.fscTotalMarks = "custom" THEN f.customFscTotal
    ELSE ParseTotalMarks(f.fscTotalMarks)

actualSscTotal(f) ==
    IF f.sscTotalMarks = "custom" THEN f.customSscTotal
    ELSE ParseTotalMarks(f.sscTotalMarks)

\* (obtained / total) * 100 in hundredths; the marks of the model divide
\* without remainder
MarksPercentage(obtained, total) == (obtained * 10000) \div total

calculatedFscPercentage(f) ==
    IF f.inputMode = "percentage" THEN f.fscPercentage
    ELSE IF actualFscTotal(f) <= 0 THEN 0
    ELSE MarksPercentage(f.fscObtainedMarks, actualFscTotal(f))

calculatedSscPercentage(f) ==
    IF f.inputMode = "percentage" THEN f.sscPercentage
    ELSE IF actualSscTotal(f) <= 0 THEN 0
    ELSE MarksPercentage(f.sscObtainedMarks, actualSscTotal(f))

calculatedEquivalencePercentage(f) ==
    IF f.equivalenceInputMode = "percentage" THEN f.equivalencePercentage
    ELSE IF f.equivalenceTotalMarks <= 0 THEN 0
    ELSE MarksPercentage(f.equivalenceObtainedMarks, f.equivalenceTotalMarks)

\* The AggregateInput that handleCalculate builds from the fields
FormData(f) ==
    [ netScore |-> f.netScore,
      hscPercentage |-> calculatedFscPercentage(f),
      sscPercentage |-> calculatedSscPercentage(f),
      useEquivalence |-> f.useEquivalence,
      equivalencePercentage |->
          IF f.useEquivalence THEN Some(calculatedEquivalencePercentage(f))
          ELSE Null ]

\* handleCalculate: the errors and the result it leaves, given the result
\* shown before (out.result); the branches that report marks above the
\* total set errors and return without setResult
handleCalculate(f, out) ==
    LET formData == FormData(f)
        validation == validateAggregateInput(formData)
        Fails(msg) == [errors |-> <<msg>>, result |-> out.result, isCalculating |-> FALSE]
    IN  IF ~validation.isValid
        THEN [errors |-> validation.errors, result |-> Null, isCalculating |-> FALSE]
        ELSE IF ~f.useEquivalence /\ f.inputMode = "marks"
                  /\ f.fscObtainedMarks > actualFscTotal(f)
        THEN Fails("FSc obtained marks cannot exceed total marks")
        ELSE IF ~f.useEquivalence /\ f.inputMode = "marks"
                  /\ f.sscObtainedMarks > actualSscTotal(f)
        THEN Fails("SSC/Matric obtained marks cannot exceed total marks")
        ELSE IF f.useEquivalence /\ f.equivalenceInputMode = "marks"
                  /\ f.equivalenceObtainedMarks > f.equivalenceTotalMarks
        THEN Fails("Equivalence obtained marks cannot exceed total marks")
        ELSE [ errors |-> <<>>, result |-> Some(calculateAggregate(formData)),
               isCalculating |-> FALSE ]

\* handleReset: the totals, the modes and useEquivalence stay
handleReset(f) ==
    [f EXCEPT !.netScore = 0, !.fscObtainedMarks = 0, !.fscPercentage = 0,
              !.sscObtainedMarks = 0, !.sscPercentage = 0,
              !.equivalenceObtainedMarks = 0, !.equivalencePercentage = 0]

-----------------------------------------------------------------------------
(* The form as a state machine                                             *)

MaxEvents == 5

InitForm ==
    /\ fn = "AggregateForm"
    /\ arg = AggregateFormFields
    /\ res = AggregateFormOutput
    /\ prev = [events |-> 0, last |-> "mount"]
    /\ program = NoProgram
    /\ store = EmptyStore

\* The form takes another event
CanHandle == fn = "AggregateForm" /\ prev.events < MaxEvents

\* An onChange or onClick handler has set one field: nothing else changes
Handled(handler) ==
    /\ prev' = [events |-> prev.events + 1, last |-> handler]
    /\ UNCHANGED <<fn, res, program, store>>

SetNetScore ==
    /\ CanHandle
    /\ \E v \in {0, 15000, 25000} : arg' = [arg EXCEPT !.netScore = v]
    /\ Handled("setNetScore")

SetUseEquivalence ==
    /\ CanHandle
    /\ \E v \in BOOLEAN : arg' = [arg EXCEPT !.useEquivalence = v]
    /\ Handled("setUseEquivalence")

SetEquivalenceInputMode ==
    /\ CanHandle
    /\ \E v \in {"marks", "percentage"} : arg' = [arg EXCEPT !.equivalenceInputMode = v]
    /\ Handled("setEquivalenceInputMode")

SetEquivalenceTotalMarks ==
    /\ CanHandle
    /\ \E v \in {0, 1100} : arg' = [arg EXCEPT !.equivalenceTotalMarks = v]
    /\ Handled("setEquivalenceTotalMarks")

SetEquivalenceObtainedMarks ==
    /\ CanHandle
    /\ \E v \in {0, 880} : arg' = [arg EXCEPT !.equivalenceObtainedMarks = v]
    /\ Handled("setEquivalenceObtainedMarks")

SetEquivalencePercentage ==
    /\ CanHandle
    /\ \E v \in {0, 8000} : arg' = [arg EXCEPT !.equivalencePercentage = v]
    /\ Handled("setEquivalencePercentage")

SetInputMode ==
    /\ CanHandle
    /\ \E v \in {"marks", "percentage"} : arg' = [arg EXCEPT !.inputMode = v]
    /\ Handled("setInputMode")

SetFscTotalMarks ==
    /\ CanHandle
    /\ \E v \in {"550", "1100", "custom"} : arg' = [arg EXCEPT !.fscTotalMarks = v]
    /\ Handled("setFscTotalMarks")

SetCustomFscTotal ==
    /\ CanHandle
    /\ \E v \in {0, 1100} : arg' = [arg EXCEPT !.customFscTotal = v]
    /\ Handled("setCustomFscTotal")

SetFscObtainedMarks ==
    /\ CanHandle
    /\ \E v \in {0, 550} : arg' = [arg EXCEPT !.fscObtainedMarks = v]
    /\ Handled("setFscObtainedMarks")

SetFscPercentage ==
    /\ CanHandle
    /\ \E v \in {0, 8500} : arg' = [arg EXCEPT !.fscPercentage = v]
    /\ Handled("setFscPercentage")

SetSscTotalMarks ==
    /\ CanHandle
    /\ \E v \in {"1100", "1050", "custom"} : arg' = [arg EXCEPT !.sscTotalMarks = v]
    /\ Handled("setSscTotalMarks")

SetCustomSscTotal ==
    /\ CanHandle
    /\ \E v \in {0, 1100} : arg' = [arg EXCEPT !.customSscTotal = v]
    /\ Handled("setCustomSscTotal")

SetSscObtainedMarks ==
    /\ CanHandle
    /\ \E v \in {0, 1155} : arg' = [arg EXCEPT !.sscObtainedMarks = v]
    /\ Handled("setSscObtainedMarks")

SetSscPercentage ==
    /\ CanHandle
    /\ \E v \in {0, 9000} : arg' = [arg EXCEPT !.sscPercentage = v]
    /\ Handled("setSscPercentage")

HandleCalculate ==
    /\ CanHandle
    /\ res' = handleCalculate(arg, res)
    /\ prev' = [events |-> prev.events + 1, last |-> "handleCalculate"]
    /\ UNCHANGED <<fn, arg, program, store>>

HandleReset ==
    /\ CanHandle
    /\ arg' = handleReset(arg)
    /\ res' = [res EXCEPT !.result = Null, !.errors = <<>>]
    /\ prev' = [events |-> prev.events + 1, last |-> "handleReset"]
    /\ UNCHANGED <<fn, program, store>>

NextForm ==
    \/ SetNetScore \/ SetUseEquivalence \/ SetEquivalenceInputMode
    \/ SetEquivalenceTotalMarks \/ SetEquivalenceObtainedMarks
    \/ SetEquivalencePercentage \/ SetInputMode \/ SetFscTotalMarks
    \/ SetCustomFscTotal \/ SetFscObtainedMarks \/ SetFscPercentage
    \/ SetSscTotalMarks \/ SetCustomSscTotal \/ SetSscObtainedMarks
    \/ SetSscPercentage \/ HandleCalculate \/ HandleReset

SpecForm == InitForm /\ [][NextForm]_vars

-----------------------------------------------------------------------------
(* Claims about the form                                                   *)

\* C30: after any sequence of input edits, mode switches and Calculate
\* clicks the form never shows a result together with errors of the latest
\* Calculate: when handleCalculate ends with a non-empty errors list the
\* result is null, and when it ends with a result the errors are empty and
\* the result was computed from an input that validateAggregateInput accepts
C30_NoResultWithErrors ==
    (fn = "AggregateForm" /\ prev.last = "handleCalculate") =>
        /\ res.errors # <<>> => res.result = Null
        /\ res.result # Null =>
               /\ res.errors = <<>>
               /\ validateAggregateInput(FormData(arg)).isValid
               /\ res.result = Some(calculateAggregate(FormData(arg)))

====
